---- MODULE Spec2Model ----
(***************************************************************************)
(* A model of matterircd's IRC server registry (mm-go-irckit/server.go)   *)
(* and of the Slack bridge's send path and event translator.              *)
(*                                                                         *)
(* Strings are sequences of one-character strings, so that lower-casing,  *)
(* truncation and lexicographic comparison are computed as the Go code    *)
(* computes them.  The empty string is <<>>.                               *)
(***************************************************************************)
EXTENDS Integers, Sequences, FiniteSets, TLC

\* ------------------------------------------------------------- bounds
\* ServerConfig.MaxNickLen of the modelled server (a configuration value).
MaxNickLen == 2
\* Lines a connection sends during its handshake under Spec.
MaxRegLines == 2
\* RenameUser calls started under Spec and SpecHandshake.
MaxRenames == 2
\* Channel objects constructed under SpecChan.
MaxChannels == 2
\* Messages the backend accepts or originates under SpecSlack.
MaxMessages == 2
\* Rows of an attachment's body under SpecEvents.
MaxRows == 7
\* Handle(u) calls made for a connection under SpecServe and SpecDispatch.
MaxHandles == 1

\* ---------------------------------------------------------- constants
handshakeMsgTolerance == 20

None == "none"

\* User objects: two connecting clients and one bridge-created ghost.
Conns == {"c1", "c2"}
Ghosts == {"g1", "g2"}
Users == Conns \cup Ghosts
\* Goroutines that run a dispatched RenameUser call.
Threads == {"t1", "t2"}

\* ------------------------------------------------------------ strings
Lower(ch) == IF ch = "A" THEN "a" ELSE IF ch = "B" THEN "b" ELSE ch

\* strings.ToLower
ToLower(s) == [k \in 1..Len(s) |-> Lower(s[k])]

\* ID normalizes a name for comparison.
IDCaseSensitive(s) == s
ID(s) == ToLower(s)

\* s[:MaxNickLen] when len(s) > MaxNickLen.
TruncateNone(s) == s
Truncate(s) == IF Len(s) > MaxNickLen THEN SubSeq(s, 1, MaxNickLen) ELSE s

\* strings.ToUpper
Upper(ch) == IF ch = "c" THEN "C" ELSE IF ch = "d" THEN "D" ELSE ch
ToUpper(s) == [k \in 1..Len(s) |-> Upper(s[k])]

\* strings.HasPrefix(s, p) for a one-character p.
HasPrefix(s, p) == Len(s) >= 1 /\ s[1] = p

\* Go's < on strings: bytewise lexicographic, here on strings of digits.
Digits == <<"0", "1", "2", "3", "4", "5", "6", "7", "8", "9">>
Code(ch) == 47 + CHOOSE k \in 1..10 : Digits[k] = ch

RECURSIVE StrLess(_, _)
StrLess(a, b) ==
    IF b = <<>> THEN FALSE
    ELSE IF a = <<>> THEN TRUE
    ELSE IF Code(a[1]) < Code(b[1]) THEN TRUE
    ELSE IF Code(a[1]) > Code(b[1]) THEN FALSE
    ELSE StrLess(Tail(a), Tail(b))

\* strings.Split(s, "\n")
RECURSIVE Split(_)
Split(s) ==
    IF \A k \in 1..Len(s) : s[k] # "\n" THEN <<s>>
    ELSE LET k == CHOOSE j \in 1..Len(s) :
                     s[j] = "\n" /\ \A h \in 1..(j - 1) : s[h] # "\n"
         IN  <<SubSeq(s, 1, k - 1)>> \o Split(SubSeq(s, k + 1, Len(s)))

\* Go map operations; MapGet yields the zero value "" for a missing key.
MapGet(f, k) == IF k \in DOMAIN f THEN f[k] ELSE <<>>
MapPut(f, k, v) == [x \in (DOMAIN f) \cup {k} |-> IF x = k THEN v ELSE f[x]]
MapDel(f, k) == [x \in (DOMAIN f) \ {k} |-> f[x]]
EmptyMap == [x \in {} |-> None]

\* ----------------------------------------------------------- messages
Msg(cmd, params, trailing) ==
    [Command |-> cmd, Params |-> params, Trailing |-> trailing]

\* A nil *irc.Message (an empty line, or a receive on the closed channel).
NilMsg == [Command |-> "<nil>", Params |-> <<>>, Trailing |-> <<>>]

ServerPrefix == [Name |-> <<"s", "r", "v">>, User |-> <<>>]

\* An encoded reply: prefix, command, parameters.
Reply(prefix, cmd, params) == [Prefix |-> prefix, Command |-> cmd, Params |-> params]

VARIABLES
    users,      \* server.users: normalized key -> user
    Nick,       \* User.Nick
    User,       \* User.User
    Real,       \* User.Real
    Pass,       \* User.Pass (<<>> is nil)
    gotPass,    \* whether the handshake has received a PASS line, per connection
    conn,       \* where each connection's Connect stands: "new"; inside
                \* handshake "handshake" (at the select), "add", "adding", "inuse",
                \* "added", "welcome", "login", "return", "returnErr"; and when
                \* it has returned "serving" (the command loop was started) or
                \* "closed" (it closed the connection and returned the error)
    ret,        \* what Connect returned: "pending", "nil", "ErrHandshakeFailed", "EncodeError"
    i,          \* handshake's message budget counter
    handling,   \* whether go s.handle(u) was started
    su,         \* server.u
    logins,     \* the call of login() the handshake made, per connection: the
                \* acting user, the credentials and the service it was made with
    encoded,    \* the replies the latest step encoded to each user
    lock,       \* holder of the registry's write lock, or None
    rn,         \* the in-flight RenameUser calls, per goroutine
    renames,    \* RenameUser calls started so far
    member,     \* channel membership: set of <<user, channel id>>
    channels,   \* server.channels: id or name -> channel
    chans,      \* the channel objects constructed so far
    chLast,     \* the latest Channel or UnlinkChannel call
    msgLast,    \* Slack.msgLast: channel id -> id of the message sent last
    snd,        \* the in-flight MsgChannel and MsgUser calls, per goroutine
    inq,        \* rtm.IncomingEvents: the backend's events not yet handled
    tr,         \* where handleSlack's goroutine stands: "idle", "sleep", "lines"
                \* (in the loop that sends a message's lines), "send" (in
                \* s.eventChan <- event), in a GetUser call of a member handler
                \* "GetUser" (at the cache lookup of line 917), "ask" (at the
                \* call of line 923) or "store" (at the write of line 928), or
                \* "crashed"
    pending,    \* the event the translator's send on eventChan waits with
    emitted,    \* what handling the latest backend event has sent to eventChan
    lastEv,     \* the backend event handled latest
    trLog,      \* the error handling the latest backend event logged
    clock,      \* the backend's message clock
    sent,       \* the <<channel, id>> of every post the backend accepted
    inbound,    \* each connection's DecodeCh: "open" or "closed"
    quits,      \* Quit invocations, per connection
    logouts,    \* calls of the bridge's Logout, per connection
    runErr,     \* what commands.Run returned latest, per connection
    handles,    \* the Handle(u) calls made, per connection
    ended,      \* the loops of handle that ended, per connection
    hd,         \* the goroutines handle started for its lines (line 360) that
                \* have not called commands.Run yet
    viper,      \* Slack.v: the slack.restrict and slack.DenyUsers lists
    rtm,        \* Slack.rtm's connection: "none", "connecting", "connected", "disconnected"
    rtmInfo,    \* what rtm.GetInfo() returns: Nil until the connection is made
    sinfo,      \* Slack.sinfo
    count,      \* loginToSlack's count of polls
    started,    \* the goroutines loginToSlack started: "handleSlack", "onConnect"
    connected,  \* Slack.connected
    newErr,     \* what loginToSlack returned: "pending", "nil" or the error
    lpc,        \* where New stands, in loginToSlack or after it
    nu,         \* the users of New's range over GetUsers's answer still to come
    sc,         \* Slack.sc: "nil" or "client"
    qpc,        \* where the Quit calls of each connection stand, in the order
                \* they were made: "delete", "deleting", "logout", inside
                \* Slack.Logout "Disconnect", "sc", "send", "connected", and
                \* "called" when the call has returned
    closing,    \* the goroutines of Quit's go u.Close() still to run, per connection
    lg,         \* where the call of server.Logout stands
    lo,         \* where the call of Slack.Logout stands that no Quit made
    logoutEvents, \* the logout events Slack.Logout has sent on eventChan
    lastRead,   \* the latest count read from the registry's indexes
    closed,     \* whether u.Close() has run on the connection, called by Quit's
                \* goroutine or by server.Close
    batch,      \* the BatchAdd call in flight
    cc,         \* the Channel or UnlinkChannel call in flight
    susers,     \* Slack.susers: the ids of the users in the cache
    gu,         \* the call of GetUser a goroutine other than the translator's makes
    lk,         \* the GetUser calls of the member handler the translator is in:
                \* the ids still to look up, the one of the running call first,
                \* and the users the calls before it returned
    ghost,      \* handleSlackActionPost's ghost: the sender of the message whose
                \* lines are being sent
    alive       \* whether the process runs: FALSE once a panic or a fatal error
                \* of the runtime has ended it

regVars == <<users, Nick, User, Real, Pass, gotPass, conn, ret, i, handling, su, logins,
             encoded, lock, rn, renames, member>>

chanVars == <<channels, chans, chLast, cc>>

slackVars == <<msgLast, snd, inq, tr, emitted, lastEv, trLog, clock, sent, susers,
               ghost>>

loopVars == <<inbound, quits, logouts, runErr, handles, ended, hd>>

loginVars == <<viper, rtm, rtmInfo, sinfo, count, started, connected, newErr, lpc,
               nu, sc>>

callVars == <<qpc, closing, lg, lo, logoutEvents, closed, batch>>

readVars == <<lastRead>>

procVars == <<alive>>

\* The translator's send in flight, the GetUser call of another goroutine and
\* the GetUser calls of the translator's member handler.
sendVars == <<pending, gu, lk>>

vars == <<regVars, chanVars, slackVars, loopVars, loginVars, readVars, callVars,
          procVars, sendVars>>

NoReplies == [u \in Users |-> <<>>]
\* No call of BatchAdd, and none of Channel or UnlinkChannel, is running.
NoBatch == [pc |-> "idle", us |-> <<>>]
NoCall == [pc |-> "idle", by |-> None, arg |-> <<>>]
\* The variables of the registry but the lock.
regRest == <<users, Nick, User, Real, Pass, gotPass, conn, ret, i, handling, su, logins,
             encoded, rn, renames, member>>
\* No call of server.Logout is running.
NoLogout == [pc |-> "idle", u |-> None, chs |-> {}, ch |-> <<>>, others |-> {}]
\* No goroutine of handle's line 360 that waits to run its line.
NoHandler == [pc |-> "idle", u |-> None, msg |-> NilMsg]
\* No call of login() was made.
NoLogin == [service |-> None, pass |-> <<>>,
            ghost |-> [Nick |-> None, User |-> None, Real |-> None, Host |-> None]]
\* No event waits in the translator's send, and no GetUser call is running.
NoEvent == [Type |-> None]
NoGetUser == [pc |-> "idle", id |-> <<>>,
              res |-> [Nick |-> <<>>, User |-> <<>>, Ghost |-> FALSE, Me |-> FALSE]]
\* The translator is in no member handler.
NoLookup == [todo |-> <<>>, found |-> <<>>]
\* A goroutine that runs no call yet; one that returned keeps its locals and res.
Idle == [pc |-> "idle", u |-> None, arg |-> <<>>, newNick |-> <<>>,
         oldPrefix |-> ServerPrefix, res |-> None]

\* User.ID(): the registry key of a user is its normalized nick.
UserKey(nick) == ID(nick)
UserID(u) == UserKey(Nick[u])

\* User.Prefix()
Prefix(u) == [Name |-> Nick[u], User |-> User[u]]

Registered(u) == \E k \in DOMAIN users : users[k] = u

\* HasUser(nick)'s second result: some user of s.users has u.Nick == nick.
HasUser(nick) == \E k \in DOMAIN users : Nick[users[k]] = nick
KeysOf(u) == {k \in DOMAIN users : users[k] = u}

\* The server after NewServer and the connections before Connect, whatever the
\* state of the Slack session.
InitServer ==
    /\ users = EmptyMap
    /\ Nick = [u \in Users |-> <<>>]
    /\ User = [u \in Users |-> <<>>]
    /\ Real = [u \in Users |-> <<>>]
    /\ Pass = [u \in Users |-> <<>>]
    /\ gotPass = [c \in Conns |-> FALSE]
    /\ conn = [c \in Conns |-> "new"]
    /\ ret = [c \in Conns |-> "pending"]
    /\ i = [c \in Conns |-> 0]
    /\ handling = [c \in Conns |-> FALSE]
    /\ su = None
    /\ logins = [c \in Conns |-> NoLogin]
    /\ encoded = NoReplies
    /\ lock = None
    /\ rn = [t \in Threads |-> Idle]
    /\ renames = 0
    /\ member = {}
    /\ channels = EmptyMap
    /\ chans = {}
    /\ chLast = [op |-> None]
    /\ msgLast = EmptyMap
    /\ snd = [t \in Threads |-> [pc |-> "idle", res |-> <<>>, err |-> None]]
    /\ inq = <<>>
    /\ tr = "idle"
    /\ emitted = <<>>
    /\ lastEv = [Type |-> None]
    /\ trLog = None
    /\ clock = 0
    /\ sent = {}
    /\ inbound = [c \in Conns |-> "open"]
    /\ quits = [c \in Conns |-> 0]
    /\ logouts = [c \in Conns |-> 0]
    /\ runErr = [c \in Conns |-> None]
    /\ handles = [c \in Conns |-> 0]
    /\ ended = [c \in Conns |-> 0]
    /\ hd = [t \in Threads |-> NoHandler]
    /\ lastRead = [op |-> None]
    /\ qpc = [c \in Conns |-> <<>>]
    /\ closing = [c \in Conns |-> 0]
    /\ lg = NoLogout
    /\ lo = "idle"
    /\ logoutEvents = 0
    /\ closed = [c \in Conns |-> FALSE]
    /\ batch = NoBatch
    /\ cc = NoCall
    /\ ghost = [Nick |-> <<>>, User |-> <<>>, Ghost |-> FALSE, Me |-> FALSE]
    /\ pending = NoEvent
    /\ gu = NoGetUser
    /\ lk = NoLookup
    /\ alive = TRUE

\* No Slack session yet: New has not been called.
Init ==
    /\ InitServer
    /\ susers = {}
    /\ viper = [restrict |-> <<>>, DenyUsers |-> <<>>]
    /\ rtm = "none"
    /\ rtmInfo = [nil |-> TRUE]
    /\ sinfo = [nil |-> TRUE]
    /\ count = 0
    /\ started = {}
    /\ connected = FALSE
    /\ newErr = "pending"
    /\ lpc = "idle"
    /\ nu = <<>>
    /\ sc = "nil"

\* The team and the account of a session that was let in.
SessionInfo == [nil |-> FALSE, Domain |-> <<"t">>, Name |-> <<"b">>]

\* What New leaves in the cache (lines 58-68): the users GetUsers answered with,
\* but the local account; none when the call failed or the user joined later.
SessionCaches == {{}, {<<"U", "1">>}}
\* What GetUsers answers New with: nothing, or the local account and another user.
GetUsersAnswers == {<<>>, << <<"U", "0">>, <<"U", "1">> >>}

\* New has returned a Slack session: loginToSlack went through (lines 453-508).
InitSession ==
    /\ InitServer
    /\ susers \in SessionCaches
    /\ viper = [restrict |-> <<>>, DenyUsers |-> <<>>]
    /\ rtm = "connected"
    /\ rtmInfo = SessionInfo
    /\ sinfo = SessionInfo
    /\ count = 0
    /\ started = {"handleSlack", "onConnect"}
    /\ connected = TRUE
    /\ newErr = "nil"
    /\ lpc = "done"
    /\ nu = <<>>
    /\ sc = "client"

\* ------------------------------------------------------------ handshake
\* Connect: handshake's prologue (lines 402-408); the loop then waits for lines.
ConnectStart(c) ==
    /\ alive
    /\ conn[c] = "new"
    /\ conn' = [conn EXCEPT ![c] = "handshake"]
    /\ i' = [i EXCEPT ![c] = handshakeMsgTolerance]
    /\ encoded' = NoReplies
    /\ UNCHANGED <<users, Nick, User, Real, Pass, gotPass, ret, handling, su, logins,
                   lock, rn, renames, member>>

\* server.welcome's u.Encode call: the five numerics of the burst, addressed to
\* the nick.
WelcomeBurst(nick) ==
    << Reply(ServerPrefix, "RPL_WELCOME", <<nick>>),
       Reply(ServerPrefix, "RPL_YOURHOST", <<nick>>),
       Reply(ServerPrefix, "RPL_CREATED", <<nick>>),
       Reply(ServerPrefix, "RPL_MYINFO", <<nick>>),
       Reply(ServerPrefix, "RPL_LUSERCLIENT", <<nick>>) >>

\* What CmdMotd(s, u, nil) writes to u, whatever the replies are: it is called
\* even when the MOTD is empty.
CmdMotd(nick) == << Reply(ServerPrefix, "MOTD", <<nick>>) >>

\* How a call of welcome ends: both writes go through; u.Encode fails, and
\* CmdMotd is not called; or the numerics are written and CmdMotd fails.
WelcomeOutcomes == {"ok", "encodeFails", "motdFails"}

\* What welcome has written to u when it returns.
WelcomeWrites(nick, w) ==
    IF w = "ok" THEN WelcomeBurst(nick) \o CmdMotd(nick)
    ELSE IF w = "motdFails" THEN WelcomeBurst(nick)
    ELSE <<>>

\* The service the login is made with (handshake, lines 463-466).
ServiceMattermost(pass) == "mattermost"
Service(pass) == IF Len(pass) = 1 THEN "slack" ELSE "mattermost"

\* The user the login acts as (lines 467-475): a user object made for the call,
\* whose nick, username and real name are the service's name.
ServiceGhost(service) ==
    [Nick |-> service, User |-> service, Real |-> service, Host |-> "service"]

\* server.add's test under the lock: the key is free.
KeyFreeAlways(k) == TRUE
KeyFree(k) == k \notin DOMAIN users

\* Line 462: the login is made when the welcome went through and PASS was given.
LoginAlways(wok, pass) == wok
LoginWanted(wok, pass) == wok /\ pass # <<>>

\* Lines 442-443: JOIN before registration is answered with ERR_NOTREGISTERED.
JoinReplyNone(cmd) == <<>>
JoinReply(cmd) ==
    IF cmd = "JOIN"
    THEN << Reply(ServerPrefix, "ERR_NOTREGISTERED", << <<"*">> >>) >>
    ELSE <<>>

\* Connect after handshake returned err (lines 273-279): close on an error, else
\* start the command loop.
ConnectTailAlwaysHandle(err) ==
    [conn |-> IF err = "nil" THEN "serving" ELSE "closed", handling |-> TRUE]
ConnectTail(err) ==
    [conn |-> IF err = "nil" THEN "serving" ELSE "closed", handling |-> err = "nil"]

\* The budget test of the loop (lines 415-419): the decremented counter is 0.
BudgetExhaustedLate(n) == n = -1
BudgetExhausted(n) == n = 0

\* One iteration of handshake's loop on the line m received from DecodeCh, as
\* far as line 452: the budget, the fields of u, the reply to a JOIN.  With
\* both nick and username set the goroutine goes on to call s.add(u).
HandshakeMsg(c, m) ==
    /\ alive
    /\ conn[c] = "handshake"
    /\ LET i1 == i[c] - 1
           params == IF m.Command \in {"NICK", "PASS"} /\ m.Trailing # <<>>
                     THEN Append(m.Params, m.Trailing) ELSE m.Params
           processed == ~BudgetExhausted(i1) /\ m # NilMsg /\ Len(params) >= 1
           nick1 == IF processed /\ m.Command = "NICK" THEN params[1] ELSE Nick[c]
           user1 == IF processed /\ m.Command = "USER" THEN params[1] ELSE User[c]
           real1 == IF processed /\ m.Command = "USER" THEN m.Trailing ELSE Real[c]
           pass1 == IF processed /\ m.Command = "PASS" THEN params ELSE Pass[c]
           notreg == IF processed THEN JoinReply(m.Command) ELSE <<>>
           attempt == processed /\ nick1 # <<>> /\ user1 # <<>>
           nick2 == IF attempt THEN Truncate(nick1) ELSE nick1
       IN  /\ i' = [i EXCEPT ![c] = i1]
           /\ Nick' = [Nick EXCEPT ![c] = nick2]
           /\ User' = [User EXCEPT ![c] = user1]
           /\ Real' = [Real EXCEPT ![c] = real1]
           /\ Pass' = [Pass EXCEPT ![c] = pass1]
           /\ gotPass' = [gotPass EXCEPT ![c] = @ \/ (m # NilMsg /\ m.Command = "PASS")]
           /\ encoded' = [NoReplies EXCEPT ![c] = notreg]
           /\ IF BudgetExhausted(i1)
              THEN /\ ret' = [ret EXCEPT ![c] = "ErrHandshakeFailed"]
                   /\ conn' = [conn EXCEPT ![c] = ConnectTail("ErrHandshakeFailed").conn]
                   /\ handling' = [handling EXCEPT
                                     ![c] = ConnectTail("ErrHandshakeFailed").handling]
              ELSE /\ conn' = [conn EXCEPT ![c] = IF attempt THEN "add" ELSE "handshake"]
                   /\ UNCHANGED <<ret, handling>>
    /\ UNCHANGED <<users, su, logins, lock, rn, renames, member>>

\* ok := s.add(u) (line 454): add takes the lock (line 389), which it gets
\* while nobody else holds it.
HandshakeLock(c) ==
    /\ alive
    /\ conn[c] = "add"
    /\ lock = None
    /\ lock' = c
    /\ conn' = [conn EXCEPT ![c] = "adding"]
    /\ encoded' = NoReplies
    /\ UNCHANGED <<users, Nick, User, Real, Pass, gotPass, ret, i, handling, su, logins, rn,
                   renames, member>>

\* The rest of add (lines 392-398), the lock held: the key is tested, u is
\* inserted when it is free, and the deferred Unlock runs.
HandshakeAdd(c) ==
    /\ alive
    /\ conn[c] = "adding"
    /\ lock = c
    /\ LET ok == KeyFree(UserID(c))
       IN  /\ users' = IF ok THEN MapPut(users, UserID(c), c) ELSE users
           /\ conn' = [conn EXCEPT ![c] = IF ok THEN "added" ELSE "inuse"]
    /\ lock' = None
    /\ encoded' = NoReplies
    /\ UNCHANGED <<Nick, User, Real, Pass, gotPass, ret, i, handling, su, logins, rn,
                   renames, member>>

\* Lines 455-457: add returned false; ERR_NICKNAMEINUSE is sent, the lock long
\* released, and the loop waits for the next line.
HandshakeInUse(c) ==
    /\ alive
    /\ conn[c] = "inuse"
    /\ encoded' = [NoReplies EXCEPT ![c] =
                     << Reply(ServerPrefix, "ERR_NICKNAMEINUSE", <<Nick[c]>>) >>]
    /\ conn' = [conn EXCEPT ![c] = "handshake"]
    /\ UNCHANGED <<users, Nick, User, Real, Pass, gotPass, ret, i, handling, su, logins,
                   lock, rn, renames, member>>

\* Line 459: s.u = u, with no lock held.
HandshakeSetU(c) ==
    /\ alive
    /\ conn[c] = "added"
    /\ su' = c
    /\ conn' = [conn EXCEPT ![c] = "welcome"]
    /\ encoded' = NoReplies
    /\ UNCHANGED <<users, Nick, User, Real, Pass, gotPass, ret, i, handling, logins,
                   lock, rn, renames, member>>

\* Line 461: err := s.welcome(u).  The arguments of u.Encode are built first,
\* s.Len() among them, which takes the read lock.
Welcome(c, w) ==
    /\ alive
    /\ conn[c] = "welcome"
    /\ w \in WelcomeOutcomes
    /\ lock = None
    /\ encoded' = [NoReplies EXCEPT ![c] = WelcomeWrites(Nick[c], w)]
    /\ conn' = [conn EXCEPT ![c] =
                  IF w # "ok" THEN "returnErr"
                  ELSE IF LoginWanted(TRUE, Pass[c]) THEN "login" ELSE "return"]
    /\ UNCHANGED <<users, Nick, User, Real, Pass, gotPass, ret, i, handling, su, logins,
                   lock, rn, renames, member>>

\* Lines 462-478: the call of login(u, ghost, u.Pass, service).
HandshakeLogin(c) ==
    /\ alive
    /\ conn[c] = "login"
    /\ logins' = [logins EXCEPT ![c] = [service |-> Service(Pass[c]),
                                        pass |-> Pass[c],
                                        ghost |-> ServiceGhost(Service(Pass[c]))]]
    /\ conn' = [conn EXCEPT ![c] = "return"]
    /\ encoded' = NoReplies
    /\ UNCHANGED <<users, Nick, User, Real, Pass, gotPass, ret, i, handling, su,
                   lock, rn, renames, member>>

\* return err (line 480), and the rest of Connect (lines 274-279).
HandshakeReturn(c) ==
    /\ alive
    /\ conn[c] \in {"return", "returnErr"}
    /\ LET err == IF conn[c] = "return" THEN "nil" ELSE "EncodeError"
       IN  /\ ret' = [ret EXCEPT ![c] = err]
           /\ conn' = [conn EXCEPT ![c] = ConnectTail(err).conn]
           /\ handling' = [handling EXCEPT ![c] = ConnectTail(err).handling]
    /\ encoded' = NoReplies
    /\ UNCHANGED <<users, Nick, User, Real, Pass, gotPass, i, su, logins, lock, rn,
                   renames, member>>

\* The steps of handshake between the receipt of a line and the next receipt
\* or the return; W: how welcome may end.
HandshakeSteps(c, W) ==
    \/ HandshakeLock(c)
    \/ HandshakeAdd(c)
    \/ HandshakeInUse(c)
    \/ HandshakeSetU(c)
    \/ \E w \in W : Welcome(c, w)
    \/ HandshakeLogin(c)
    \/ HandshakeReturn(c)

\* The select's other case (lines 481-482): no line for 10 seconds.
HandshakeTimeout(c) ==
    /\ alive
    /\ conn[c] = "handshake"
    /\ ret' = [ret EXCEPT ![c] = "ErrHandshakeFailed"]
    /\ conn' = [conn EXCEPT ![c] = ConnectTail("ErrHandshakeFailed").conn]
    /\ handling' = [handling EXCEPT ![c] = ConnectTail("ErrHandshakeFailed").handling]
    /\ encoded' = NoReplies
    /\ UNCHANGED <<users, Nick, User, Real, Pass, gotPass, i, su, logins,
                   lock, rn, renames, member>>

\* Add(u) of a user object the bridge created with nick n: add takes the lock
\* (line 389).
Add(u, n) ==
    /\ alive
    /\ u \in Ghosts
    /\ ~Registered(u)
    /\ \A t \in Threads : rn[t].pc # "idle" => rn[t].u # u
    /\ lock = None
    /\ lock' = u
    /\ Nick' = [Nick EXCEPT ![u] = n]
    /\ encoded' = NoReplies
    /\ UNCHANGED <<users, User, Real, Pass, gotPass, conn, ret, i, handling, su, logins,
                   rn, renames, member>>

\* The rest of that call (lines 392-398), the lock held.
AddInsert(u) ==
    /\ alive
    /\ u \in Ghosts
    /\ lock = u
    /\ users' = IF KeyFree(UserID(u)) THEN MapPut(users, UserID(u), u) ELSE users
    /\ lock' = None
    /\ encoded' = NoReplies
    /\ UNCHANGED <<Nick, User, Real, Pass, gotPass, conn, ret, i, handling, su, logins,
                   rn, renames, member>>

\* One turn of BatchAdd's loop (lines 376-381) on the registry m: u is inserted
\* unless its key is there already.
BatchPut(m, u) == IF UserID(u) \in DOMAIN m THEN m ELSE MapPut(m, UserID(u), u)

\* BatchAdd(us) of user objects the bridge created with the nicks ns: the lock
\* is taken (line 373).
BatchAdd(us, ns) ==
    /\ alive
    /\ batch.pc = "idle"
    /\ Len(us) = Len(ns)
    /\ \A k \in 1..Len(us) :
          /\ us[k] \in Ghosts
          /\ ~Registered(us[k])
          /\ \A j \in 1..Len(us) : j # k => us[j] # us[k]
          /\ \A t \in Threads : rn[t].pc # "idle" => rn[t].u # us[k]
    /\ lock = None
    /\ lock' = "BatchAdd"
    /\ Nick' = [u \in Users |->
                  IF \E k \in 1..Len(us) : us[k] = u
                  THEN ns[CHOOSE k \in 1..Len(us) : us[k] = u] ELSE Nick[u]]
    /\ batch' = [pc |-> "range", us |-> us]
    /\ encoded' = NoReplies
    /\ UNCHANGED <<users, User, Real, Pass, gotPass, conn, ret, i, handling, su, logins,
                   rn, renames, member>>
    /\ UNCHANGED <<chanVars, loopVars, loginVars, qpc, closing, lg, lo,
                   logoutEvents, closed>>

\* The next turn of the loop, the lock held.
BatchInsert ==
    /\ alive
    /\ batch.pc = "range"
    /\ batch.us # <<>>
    /\ users' = BatchPut(users, Head(batch.us))
    /\ batch' = [batch EXCEPT !.us = Tail(batch.us)]
    /\ encoded' = NoReplies
    /\ UNCHANGED <<Nick, User, Real, Pass, gotPass, conn, ret, i, handling, su, logins,
                   lock, rn, renames, member>>
    /\ UNCHANGED <<chanVars, loopVars, loginVars, qpc, closing, lg, lo,
                   logoutEvents, closed>>

\* The loop is over: the deferred Unlock runs and BatchAdd returns.
BatchUnlock ==
    /\ alive
    /\ batch.pc = "range"
    /\ batch.us = <<>>
    /\ lock' = None
    /\ batch' = NoBatch
    /\ encoded' = NoReplies
    /\ UNCHANGED <<users, Nick, User, Real, Pass, gotPass, conn, ret, i, handling, su, logins,
                   rn, renames, member>>
    /\ UNCHANGED <<chanVars, loopVars, loginVars, qpc, closing, lg, lo,
                   logoutEvents, closed>>

\* The steps of a call of BatchAdd after the call itself.
BatchSteps ==
    \/ BatchInsert
    \/ BatchUnlock

\* ----------------------------------------------------------- RenameUser
\* Channel.Join as far as membership goes: u becomes a member of channel ch.
Join(u, ch) ==
    /\ alive
    /\ Registered(u)
    /\ <<u, ch>> \notin member
    /\ member' = member \cup {<<u, ch>>}
    /\ encoded' = NoReplies
    /\ UNCHANGED <<users, Nick, User, Real, Pass, gotPass, conn, ret, i, handling, su,
                   logins, lock, rn, renames>>

\* User.VisibleTo(): the other users that share at least one channel with u.
VisibleTo(u) ==
    {o \in Users \ {u} : \E ch \in {p[2] : p \in member} :
                            <<u, ch>> \in member /\ <<o, ch>> \in member}

\* The call RenameUser(u, n) is dispatched to goroutine t; lines 188-190 truncate.
RenameBegin(t, u, n) ==
    /\ alive
    /\ rn[t].pc = "idle"
    /\ renames < MaxRenames
    /\ IF u \in Conns THEN handling[u] ELSE Registered(u)
    /\ rn' = [rn EXCEPT ![t] = [pc |-> "lock", u |-> u, arg |-> n,
                                newNick |-> Truncate(n), oldPrefix |-> ServerPrefix,
                                res |-> None]]
    /\ renames' = renames + 1
    /\ encoded' = NoReplies
    /\ UNCHANGED <<users, Nick, User, Real, Pass, gotPass, conn, ret, i, handling, su,
                   logins, lock, member>>

\* Lines 192-194: the lock is taken, the target key exists, the lock is
\* released.
RenameInUse(t) ==
    /\ alive
    /\ rn[t].pc = "lock"
    /\ lock = None
    /\ ~KeyFree(ID(rn[t].newNick))
    /\ rn' = [rn EXCEPT ![t].pc = "inuse"]
    /\ encoded' = NoReplies
    /\ UNCHANGED <<users, Nick, User, Real, Pass, gotPass, conn, ret, i, handling, su,
                   logins, lock, renames, member>>

\* Lines 195-196, with no lock held: ERR_NICKNAMEINUSE is sent to u, and
\* RenameUser returns false.
RenameInUseReply(t) ==
    /\ alive
    /\ rn[t].pc = "inuse"
    /\ encoded' = [NoReplies EXCEPT ![rn[t].u] =
                     << Reply(ServerPrefix, "ERR_NICKNAMEINUSE", <<rn[t].newNick>>) >>]
    /\ rn' = [rn EXCEPT ![t].pc = "idle", ![t].res = "false"]
    /\ UNCHANGED <<users, Nick, User, Real, Pass, gotPass, conn, ret, i, handling, su,
                   logins, lock, renames, member>>

\* Lines 192-200: the lock is taken, the target key is free: the old key is
\* deleted and the old prefix taken.  The lock stays held.
RenameDeleteUnlocked(t) ==
    /\ alive
    /\ rn[t].pc = "lock"
    /\ lock = None
    /\ KeyFree(ID(rn[t].newNick))
    /\ users' = MapDel(users, UserID(rn[t].u))
    /\ rn' = [rn EXCEPT ![t].pc = "rekey", ![t].oldPrefix = Prefix(rn[t].u)]
    /\ encoded' = NoReplies
    /\ UNCHANGED <<lock, Nick, User, Real, Pass, gotPass, conn, ret, i, handling, su, logins,
                   renames, member>>

RenameDeleteNewPrefix(t) ==
    /\ alive
    /\ rn[t].pc = "lock"
    /\ lock = None
    /\ KeyFree(ID(rn[t].newNick))
    /\ lock' = t
    /\ users' = MapDel(users, UserID(rn[t].u))
    /\ rn' = [rn EXCEPT ![t].pc = "rekey",
                        ![t].oldPrefix = [Name |-> rn[t].newNick, User |-> User[rn[t].u]]]
    /\ encoded' = NoReplies
    /\ UNCHANGED <<Nick, User, Real, Pass, gotPass, conn, ret, i, handling, su, logins,
                   renames, member>>

RenameDelete(t) ==
    /\ alive
    /\ rn[t].pc = "lock"
    /\ lock = None
    /\ KeyFree(ID(rn[t].newNick))
    /\ lock' = t
    /\ users' = MapDel(users, UserID(rn[t].u))
    /\ rn' = [rn EXCEPT ![t].pc = "rekey", ![t].oldPrefix = Prefix(rn[t].u)]
    /\ encoded' = NoReplies
    /\ UNCHANGED <<Nick, User, Real, Pass, gotPass, conn, ret, i, handling, su, logins,
                   renames, member>>

\* Lines 201-203: the nick is set, u is inserted under its new key, the lock is
\* released.
RenameInsert(t) ==
    /\ alive
    /\ rn[t].pc = "rekey"
    /\ Nick' = [Nick EXCEPT ![rn[t].u] = rn[t].newNick]
    /\ users' = MapPut(users, UserKey(rn[t].newNick), rn[t].u)
    /\ lock' = None
    /\ rn' = [rn EXCEPT ![t].pc = "notify"]
    /\ encoded' = NoReplies
    /\ UNCHANGED <<User, Real, Pass, gotPass, conn, ret, i, handling, su, logins,
                   renames, member>>

\* Lines 205-214: the NICK message to u and to everyone u is visible to; return
\* true.
RenameNotify(t) ==
    /\ alive
    /\ rn[t].pc = "notify"
    /\ LET u == rn[t].u
           changeMsg == Reply(rn[t].oldPrefix, "NICK", <<rn[t].newNick>>)
       IN  encoded' = [o \in Users |->
                          IF o = u \/ o \in VisibleTo(u) THEN <<changeMsg>> ELSE <<>>]
    /\ rn' = [rn EXCEPT ![t].pc = "idle", ![t].res = "true"]
    /\ UNCHANGED <<users, Nick, User, Real, Pass, gotPass, conn, ret, i, handling, su,
                   logins, lock, renames, member>>

RenameSteps(t) ==
    \/ RenameInUse(t)
    \/ RenameInUseReply(t)
    \/ RenameDelete(t)
    \/ RenameInsert(t)
    \/ RenameNotify(t)

\* The process is over: no goroutine of it runs any more.
Dead == [o \in Threads |-> [pc |-> "dead", res |-> <<>>, err |-> "fatal"]]

\* An unrecovered panic, or a fatal error of the runtime, in any goroutine ends
\* the process: nothing of it runs afterwards.
Die(log) ==
    /\ alive' = FALSE
    /\ snd' = Dead
    /\ tr' = "crashed"
    /\ trLog' = log
    /\ UNCHANGED <<msgLast, inq, emitted, lastEv, clock, sent, susers, ghost>>

\* u.br is the Slack session of this model: the login was made with service
\* slack, and New returned the session (lines 51-54).
SlackSession == lpc = "done" /\ newErr = "nil"
IsSlackBridge(c) == logins[c].service = "slack" /\ SlackSession

\* --------------------------------------------------------- command loop
\* The handler registry: the commands whose handlers this model has.
Commands == {"NICK"}

\* commands.Run for a command without a handler.
RunUnknown(cmd) == IF cmd \in Commands THEN "nil" ELSE "ErrUnknownCommand"

\* The connection's DecodeCh after a handler returned err while it was ib (lines
\* 363-367): the error is at most logged, and nothing is closed.
LoopAfterFatal(err, ib) == IF err = "nil" THEN ib ELSE "closed"
LoopAfter(err, ib) == ib

\* The loops of handle(u) that are in their range over u.DecodeCh: the one
\* Connect started (line 278) and those of the Handle(u) calls, less the ones
\* that ended.
Loops(c) == (IF handling[c] THEN 1 ELSE 0) + handles[c] - ended[c]

\* Handle(u) is called for a user Connect has registered (lines 348-350): the
\* caller runs handle(u), a loop of its own beside the one Connect started.
Handle(c) ==
    /\ alive
    /\ ret[c] = "nil"
    /\ handles[c] < MaxHandles
    /\ handles' = [handles EXCEPT ![c] = handles[c] + 1]
    /\ UNCHANGED <<regVars, inbound, quits, logouts, runErr, ended, hd>>

\* Goroutine t runs nothing: neither a line's handler nor a RenameUser call.
Free(t) == hd[t].pc = "idle" /\ rn[t].pc = "idle"

\* The handlers of c's lines that were started and have not returned.
InFlight(c) ==
    {t \in Threads : (hd[t].pc = "run" /\ hd[t].u = c) \/
                     (rn[t].pc # "idle" /\ rn[t].u = c)}

\* A loop of handle is at its receive: every line is handed to a goroutine of
\* its own (line 360), so the loop is back at the receive whatever the handlers
\* do.
LoopReadySerial(c) == InFlight(c) = {}
LoopReady(c) == TRUE

\* One turn of handle's loop (lines 355-368): a loop of c receives the line m.
\* A nil line is passed over; any other is handed to goroutine t, which the go
\* statement of line 360 starts, and the loop goes back to its receive.
HandleLine(c, m, t) ==
    /\ alive
    /\ Loops(c) > 0
    /\ inbound[c] = "open"
    /\ LoopReady(c)
    /\ IF m = NilMsg
       THEN UNCHANGED hd
       ELSE /\ Free(t)
            /\ hd' = [hd EXCEPT ![t] = [pc |-> "run", u |-> c, msg |-> m]]
    /\ UNCHANGED <<regVars, inbound, quits, logouts, runErr, handles, ended>>

\* The goroutine of line 360 runs s.commands.Run(s, u, msg), whenever it is
\* scheduled.  NICK's handler calls RenameUser(u, nick) with the line's first
\* parameter; a command without a handler returns ErrUnknownCommand, which
\* handle passes over (lines 363-367).
HandlerRun(t) ==
    /\ alive
    /\ hd[t].pc = "run"
    /\ hd' = [hd EXCEPT ![t] = NoHandler]
    /\ LET c == hd[t].u
           m == hd[t].msg
       IN  IF m.Command \in Commands
           THEN /\ RenameBegin(t, c, m.Params[1])
                /\ UNCHANGED <<inbound, quits, logouts, runErr, handles, ended>>
           ELSE /\ runErr' = [runErr EXCEPT ![c] = RunUnknown(m.Command)]
                /\ inbound' = [inbound EXCEPT
                                 ![c] = LoopAfter(RunUnknown(m.Command), inbound[c])]
                /\ UNCHANGED <<regVars, quits, logouts, handles, ended>>

\* The connection's decoder closes DecodeCh, the connection open or closed.
CloseInbound(c) ==
    /\ alive
    /\ handling[c]
    /\ inbound[c] = "open"
    /\ inbound' = [inbound EXCEPT ![c] = "closed"]
    /\ UNCHANGED <<regVars, quits, logouts, runErr, handles, ended, hd>>

\* for msg := range u.DecodeCh is over.
LoopEnded(c) == inbound[c] = "closed"

\* Quit(u) is called and runs line 284, go u.Close().  Nothing keeps a second
\* call for the same user from running.
Quit(c) ==
    /\ alive
    /\ qpc' = [qpc EXCEPT ![c] = Append(qpc[c], "delete")]
    /\ closing' = [closing EXCEPT ![c] = closing[c] + 1]
    /\ quits' = [quits EXCEPT ![c] = quits[c] + 1]
    /\ UNCHANGED <<regVars, chanVars, loginVars, inbound, logouts, runErr, handles,
                   hd, lg, lo, logoutEvents, closed, batch>>

\* A loop of handle(u) ended and its deferred s.Quit(u, partMsg) is called (line
\* 354).
HandleDefer(c) ==
    /\ Loops(c) > 0
    /\ LoopEnded(c)
    /\ ended' = [ended EXCEPT ![c] = ended[c] + 1]
    /\ Quit(c)

\* A goroutine of line 284 runs u.Close(): the connection is closed, wherever
\* its Connect stands.
UserClose(c) ==
    /\ alive
    /\ closing[c] > 0
    /\ closing' = [closing EXCEPT ![c] = closing[c] - 1]
    /\ closed' = [closed EXCEPT ![c] = TRUE]
    /\ UNCHANGED <<regVars, chanVars, loopVars, loginVars, qpc, lg, lo, logoutEvents,
                   batch>>

\* Line 285: the k-th Quit call of c takes the lock.
QuitLock(c, k) ==
    /\ alive
    /\ qpc[c][k] = "delete"
    /\ lock = None
    /\ lock' = c
    /\ qpc' = [qpc EXCEPT ![c][k] = "deleting"]
    /\ encoded' = NoReplies
    /\ UNCHANGED <<users, Nick, User, Real, Pass, gotPass, conn, ret, i, handling, su,
                   logins, rn, renames, member>>
    /\ UNCHANGED <<chanVars, loopVars, loginVars, closing, lg, lo, logoutEvents,
                   closed, batch>>

\* Lines 286-287: u's key is deleted and the lock released.
QuitDelete(c, k) ==
    /\ alive
    /\ qpc[c][k] = "deleting"
    /\ lock = c
    /\ users' = MapDel(users, UserID(c))
    /\ lock' = None
    /\ qpc' = [qpc EXCEPT ![c][k] = "logout"]
    /\ encoded' = NoReplies
    /\ UNCHANGED <<Nick, User, Real, Pass, gotPass, conn, ret, i, handling, su, logins,
                   rn, renames, member>>
    /\ UNCHANGED <<chanVars, loopVars, loginVars, closing, lg, lo, logoutEvents,
                   closed, batch>>

\* Line 289: u.br.Logout() is called, the lock released.  When u.br is the
\* Slack session the call of Slack.Logout begins; any other bridge's Logout is
\* not in this model, and returns.
QuitLogout(c, k) ==
    /\ alive
    /\ qpc[c][k] = "logout"
    /\ qpc' = [qpc EXCEPT ![c][k] = IF IsSlackBridge(c) THEN "Disconnect" ELSE "called"]
    /\ logouts' = [logouts EXCEPT ![c] = logouts[c] + 1]
    /\ UNCHANGED <<regVars, chanVars, loginVars, inbound, quits, runErr, handles,
                   ended, hd, closing, lg, lo, logoutEvents, closed, batch>>

\* A Quit(u) call has returned: its call of u.br.Logout() was made and has
\* returned.
QuitReturned(c) == \E k \in DOMAIN qpc[c] : qpc[c][k] = "called"

\* A Quit(u) call has deleted u's key and released the lock.
QuitDeleted(c) ==
    \E k \in DOMAIN qpc[c] : qpc[c][k] \notin {"delete", "deleting"}

\* Of the Quit calls of c that stand at the same line, which one goes on makes
\* no difference: it is the one that was made first.
Foremost(c, k) == \A j \in 1..(k - 1) : qpc[c][j] # qpc[c][k]

\* The steps of the Quit calls of c after the calls themselves.
QuitSteps(c) ==
    \/ UserClose(c)
    \/ \E k \in DOMAIN qpc[c] : Foremost(c, k) /\ QuitLock(c, k)
    \/ \E k \in DOMAIN qpc[c] : Foremost(c, k) /\ QuitDelete(c, k)
    \/ \E k \in DOMAIN qpc[c] : Foremost(c, k) /\ QuitLogout(c, k)

\* server.Close() is called and takes the lock (line 152).
Close ==
    /\ alive
    /\ lock = None
    /\ lock' = "Close"
    /\ encoded' = NoReplies
    /\ UNCHANGED <<users, Nick, User, Real, Pass, gotPass, conn, ret, i, handling, su, logins,
                   rn, renames, member>>
    /\ UNCHANGED <<chanVars, loopVars, loginVars, callVars>>

\* One turn of the loop at lines 153-155, the lock held: u.Close() for a user of
\* the registry, wherever its Connect stands.
CloseUser(c) ==
    /\ alive
    /\ lock = "Close"
    /\ Registered(c)
    /\ ~closed[c]
    /\ closed' = [closed EXCEPT ![c] = TRUE]
    /\ UNCHANGED <<regVars, chanVars, loopVars, loginVars, qpc, closing, lg, lo,
                   logoutEvents, batch>>

\* Lines 156-157: every user of the registry was closed; the lock is released.
CloseUnlock ==
    /\ alive
    /\ lock = "Close"
    /\ \A c \in Conns : Registered(c) => closed[c]
    /\ lock' = None
    /\ encoded' = NoReplies
    /\ UNCHANGED <<users, Nick, User, Real, Pass, gotPass, conn, ret, i, handling, su, logins,
                   rn, renames, member>>
    /\ UNCHANGED <<chanVars, loopVars, loginVars, callVars>>

\* The steps of a call of server.Close after the call itself.
CloseSteps ==
    \/ \E c \in Conns : CloseUser(c)
    \/ CloseUnlock

\* Channel.ID() and Channel.String(): the id and the display name a channel was
\* constructed with.
ChID(ch) == ch.id
ChString(ch) == ch.name

\* user.Channels(): the channels u is a member of.
Channels(u) == {p[2] : p \in {q \in member : q[1] = u}}

\* ch.Users(): the members of channel ch.
ChUsers(ch) == {p[1] : p \in {q \in member : q[2] = ch}}

\* server.Logout(user) is called (line 489): channels := user.Channels().  A
\* call for a user that is in no channel changes nothing and is not a step.
Logout(u) ==
    /\ alive
    /\ lg.pc = "idle"
    /\ Channels(u) # {}
    /\ lg' = [pc |-> "range", u |-> u, chs |-> Channels(u), ch |-> <<>>, others |-> {}]
    /\ UNCHANGED <<regVars, chanVars, loopVars, loginVars, qpc, closing, lo,
                   logoutEvents, closed, batch>>

\* Lines 490-491: the next channel of the range, and ch.Users().
LogoutRange ==
    /\ alive
    /\ lg.pc = "range"
    /\ IF lg.chs = {}
       THEN lg' = NoLogout
       ELSE \E ch \in lg.chs :
               lg' = [lg EXCEPT !.pc = "users", !.ch = ch, !.chs = lg.chs \ {ch},
                                !.others = ChUsers(ch)]
    /\ UNCHANGED <<regVars, chanVars, loopVars, loginVars, qpc, closing, lo,
                   logoutEvents, closed, batch>>

\* Line 492, in a turn of the inner loop: the lock is taken.
LogoutLock ==
    /\ alive
    /\ lg.pc = "users"
    /\ lg.others # {}
    /\ lock = None
    /\ lock' = "Logout"
    /\ lg' = [lg EXCEPT !.pc = "delete"]
    /\ encoded' = NoReplies
    /\ UNCHANGED <<users, Nick, User, Real, Pass, gotPass, conn, ret, i, handling, su, logins,
                   rn, renames, member>>
    /\ UNCHANGED <<chanVars, loopVars, loginVars, qpc, closing, lo, logoutEvents,
                   closed, batch>>

\* Lines 493-494: the key of a member of the channel is deleted and the lock
\* released.
LogoutDelete ==
    /\ alive
    /\ lg.pc = "delete"
    /\ \E o \in lg.others :
          /\ users' = MapDel(users, UserID(o))
          /\ lg' = [lg EXCEPT !.pc = "users", !.others = lg.others \ {o}]
    /\ lock' = None
    /\ encoded' = NoReplies
    /\ UNCHANGED <<Nick, User, Real, Pass, gotPass, conn, ret, i, handling, su, logins,
                   rn, renames, member>>
    /\ UNCHANGED <<chanVars, loopVars, loginVars, qpc, closing, lo, logoutEvents, closed, batch>>

\* Line 496: ch.Part(user, "").
LogoutPart ==
    /\ alive
    /\ lg.pc = "users"
    /\ lg.others = {}
    /\ member' = member \ {<<lg.u, lg.ch>>}
    /\ lg' = [lg EXCEPT !.pc = "unlink"]
    /\ encoded' = NoReplies
    /\ UNCHANGED <<users, Nick, User, Real, Pass, gotPass, conn, ret, i, handling, su, logins,
                   lock, rn, renames>>
    /\ UNCHANGED <<chanVars, loopVars, loginVars, qpc, closing, lo, logoutEvents, closed, batch>>

\* The channel objects of the index that have the id ch and no member left.
Emptied(ch) == {c \in chans : ChID(c) = ch /\ ChUsers(ch) = {}}

\* Line 497: ch.Unlink(), which calls UnlinkChannel(ch) when the channel is left
\* with no member; UnlinkChannel takes the lock (line 261).
LogoutUnlink ==
    /\ alive
    /\ lg.pc = "unlink"
    /\ IF Emptied(lg.ch) = {}
       THEN /\ lg' = [lg EXCEPT !.pc = "range", !.ch = <<>>]
            /\ UNCHANGED <<lock, cc>>
       ELSE /\ cc.pc = "idle"
            /\ lock = None
            /\ lock' = "UnlinkChannel"
            /\ \E c \in Emptied(lg.ch) : cc' = [pc |-> "unlink", by |-> "Logout", arg |-> c]
            /\ lg' = [lg EXCEPT !.pc = "unlinking"]
    /\ UNCHANGED <<regRest, channels, chans, chLast, loopVars, loginVars, qpc, closing,
                   lo, logoutEvents, closed, batch>>

\* ch.Unlink() has returned.
LogoutUnlinked ==
    /\ alive
    /\ lg.pc = "unlinking"
    /\ ~(cc.pc # "idle" /\ cc.by = "Logout")
    /\ lg' = [lg EXCEPT !.pc = "range", !.ch = <<>>]
    /\ UNCHANGED <<regVars, chanVars, loopVars, loginVars, qpc, closing, lo,
                   logoutEvents, closed, batch>>

\* The steps of a call of server.Logout after the call itself.
LogoutSteps ==
    \/ LogoutRange
    \/ LogoutLock
    \/ LogoutDelete
    \/ LogoutPart
    \/ LogoutUnlink
    \/ LogoutUnlinked

\* ------------------------------------------------------------- counts
\* len(map)
MapLen(map) == Cardinality(DOMAIN map)

\* Len() (lines 293-297): len(s.users) under the read lock, which is to be had
\* only while no writer holds the lock.
LenUsers ==
    /\ alive
    /\ lock = None
    /\ lastRead' = [op |-> "Len", locked |-> TRUE, overlap |-> FALSE,
                    res |-> MapLen(users)]

\* A mutation of the registry is inside its critical section: the lock is held,
\* and not by server.Close, which only ranges over the users.
Mutating == lock \notin {None, "Close"}

\* A read of a map's length with no lock taken: it gives the length the map has
\* when it is made, between two writes of a writer as well.
RacyLen(op, map) ==
    /\ alive
    /\ lastRead' = [op |-> op, locked |-> FALSE, overlap |-> Mutating,
                    res |-> MapLen(map)]

\* UserCount() (lines 505-507): len(s.users), no lock taken.
UserCount == RacyLen("UserCount", users)

\* ChannelCount() (lines 501-503): len(s.channels), no lock taken.
ChannelCount == RacyLen("ChannelCount", channels)

\* -------------------------------------------------------- channel index
ChanIds == {<<"X">>, <<"Y">>, <<"#", "n">>}
ChanNames == {<<"#", "n">>, <<"#", "m">>}
\* What the bridge's GetChannel(id) answers: an error, or the channel's privacy.
BridgeInfos == {"error", "public", "private"}

\* ch, ok := s.channels[channelID]
Indexed(channelID) == channelID \in DOMAIN channels

\* How the calls of s.u.br at lines 230-233 end.  s.u is nil until a handshake
\* has set it: line 230 dereferences nil.  The Slack session's GetChannelName
\* and GetChannel call s.sc (part_000 lines 247, 328), which is nil after
\* Logout.  A bridge of the other service answers.  What u.br is for a user
\* whose login was not made, or whose session New has not returned, the source
\* does not tell: the calls are answered or dereference nil.
BridgeOutcomes ==
    IF su = None THEN {"panic"}
    ELSE IF IsSlackBridge(su) THEN (IF sc = "nil" THEN {"panic"} ELSE {"answer"})
    ELSE IF logins[su].service = "mattermost" THEN {"answer"}
    ELSE {"panic", "answer"}

\* Channel(channelID) is called and takes the lock (line 227).
Channel(channelID) ==
    /\ alive
    /\ cc.pc = "idle"
    /\ Indexed(channelID) \/ Cardinality(chans) < MaxChannels
    /\ lock = None
    /\ lock' = "Channel"
    /\ cc' = [pc |-> "lookup", by |-> None, arg |-> channelID]
    /\ UNCHANGED <<regRest, channels, chans, chLast, slackVars, procVars>>

\* Lines 228-229 and 253-256: the id is a key of the index; the lock is released
\* and the channel returned.
ChannelFound ==
    /\ alive
    /\ cc.pc = "lookup"
    /\ Indexed(cc.arg)
    /\ lock' = None
    /\ chLast' = [op |-> "Channel", arg |-> cc.arg, res |-> channels[cc.arg],
                  new |-> FALSE, err |-> FALSE]
    /\ cc' = NoCall
    /\ UNCHANGED <<regRest, channels, chans, slackVars, procVars>>

\* Lines 229-250, the lock held: the id is no key; the bridge is asked, which
\* ends the process when it dereferences nil; else the channel is constructed
\* and entered under its id.  named: GetChannelName found the name, else the
\* name is the id; info is what GetChannel answers.
ChannelCreate(named, name, info) ==
    /\ alive
    /\ cc.pc = "lookup"
    /\ ~Indexed(cc.arg)
    /\ \E outcome \in BridgeOutcomes :
          IF outcome = "panic"
          THEN Die("panic") /\ UNCHANGED <<regVars, chanVars>>
          ELSE LET ch == [id |-> cc.arg, name |-> IF named THEN name ELSE cc.arg,
                          private |-> (info = "private"),
                          n |-> Cardinality(chans) + 1]
               IN  /\ channels' = MapPut(channels, cc.arg, ch)
                   /\ chans' = chans \cup {ch}
                   /\ cc' = [pc |-> "name", by |-> None, arg |-> cc.arg, ch |-> ch,
                             err |-> (info = "error")]
                   /\ UNCHANGED <<regVars, chLast, slackVars, procVars>>

\* Lines 251-256: the channel is entered under its name, the lock is released
\* and the channel returned.
ChannelName ==
    /\ alive
    /\ cc.pc = "name"
    /\ channels' = MapPut(channels, ChString(cc.ch), cc.ch)
    /\ lock' = None
    /\ chLast' = [op |-> "Channel", arg |-> cc.arg, res |-> cc.ch, new |-> TRUE,
                  err |-> cc.err]
    /\ cc' = NoCall
    /\ UNCHANGED <<regRest, chans, slackVars, procVars>>

\* UnlinkChannel(ch) is called, by a caller other than server.Logout, and takes
\* the lock (line 261).
UnlinkChannel(ch) ==
    /\ alive
    /\ cc.pc = "idle"
    /\ lock = None
    /\ lock' = "UnlinkChannel"
    /\ cc' = [pc |-> "unlink", by |-> None, arg |-> ch]
    /\ UNCHANGED <<regRest, channels, chans, chLast, slackVars, procVars>>

\* Lines 262-265, the lock held: when the name's entry is ch the name's key is
\* deleted; else the lock is released and the call returns.
UnlinkName ==
    /\ alive
    /\ cc.pc = "unlink"
    /\ LET r == /\ ChString(cc.arg) \in DOMAIN channels
                /\ channels[ChString(cc.arg)] = cc.arg
       IN  IF r
           THEN /\ channels' = MapDel(channels, ChString(cc.arg))
                /\ cc' = [cc EXCEPT !.pc = "id"]
                /\ UNCHANGED <<lock, chLast>>
           ELSE /\ lock' = None
                /\ chLast' = [op |-> "UnlinkChannel", arg |-> cc.arg]
                /\ cc' = NoCall
                /\ UNCHANGED channels
    /\ UNCHANGED <<regRest, chans, slackVars, procVars>>

\* Lines 266-268: the id's key is deleted, the lock is released.
UnlinkID ==
    /\ alive
    /\ cc.pc = "id"
    /\ channels' = MapDel(channels, ChID(cc.arg))
    /\ lock' = None
    /\ chLast' = [op |-> "UnlinkChannel", arg |-> cc.arg]
    /\ cc' = NoCall
    /\ UNCHANGED <<regRest, chans, slackVars, procVars>>

\* The steps of a call of Channel or UnlinkChannel after the call itself; N,
\* I: the names and the descriptions the bridge may answer with.
ChannelSteps(N, I) ==
    \/ ChannelFound
    \/ \E named \in BOOLEAN, name \in N, info \in I : ChannelCreate(named, name, info)
    \/ ChannelName
    \/ UnlinkName
    \/ UnlinkID

\* --------------------------------------------------------- slack bridge
\* s.sinfo.User.ID, and another member of the team.
Me == <<"U", "0">>
Other == <<"U", "1">>

\* The id the backend gives its n-th message: a fixed-width timestamp.
TsStr(n) == <<Digits[(n \div 10) + 1], Digits[(n % 10) + 1]>>

\* The subtypes of a message the translator tells apart; "" is <<>>.
MessageChanged == <<"message_changed">>
BotMessage == <<"bot_message">>
MessageDeleted == <<"message_deleted">>

JoinLeave == {<<"group_join">>, <<"channel_join">>, <<"group_leave">>,
              <<"channel_leave">>}

\* A nil pointer field of an event.
Nil == [nil |-> TRUE]

\* A slack.MessageEvent of the event stream that carries a text only.
MessageEvent(user, channel, ts, text) ==
    [Type |-> "message", SubType |-> <<>>, User |-> user, Channel |-> channel,
     Timestamp |-> ts, Text |-> text, Attachments |-> <<>>, Files |-> <<>>,
     ThreadTimestamp |-> <<>>, SubMessage |-> Nil, BotID |-> <<>>,
     Username |-> <<>>, DeletedTimestamp |-> <<>>]

\* The conversation OpenConversation answers with for a user.
DMChannel(username) == <<"D", "1">>
\* GetUsersInConversation for a direct conversation.
DMMembers == <<Me, Other>>

\* PostMessage accepted by the backend: the message gets the next id, and the
\* backend reports it on the event stream of a connection that is up.
Posted(t, channel, text) ==
    /\ clock < MaxMessages
    /\ clock' = clock + 1
    /\ snd' = [snd EXCEPT ![t] = [pc |-> "posted", key |-> channel,
                                  msgID |-> TsStr(clock + 1), res |-> <<>>,
                                  err |-> None]]
    /\ inq' = IF rtm = "connected"
              THEN Append(inq, MessageEvent(Me, channel, TsStr(clock + 1), text))
              ELSE inq
    /\ sent' = sent \cup {<<channel, TsStr(clock + 1)>>}
    /\ UNCHANGED <<msgLast, tr, emitted, lastEv, trLog, susers, ghost, alive>>

\* A call that returns "", err.
SendFailed(t) ==
    /\ snd' = [snd EXCEPT ![t] = [pc |-> "idle", res |-> <<>>, err |-> "error"]]
    /\ UNCHANGED <<msgLast, inq, tr, emitted, lastEv, trLog, clock, sent, susers, ghost, alive>>

\* MsgChannel up to PostMessage's return; ok is whether the backend accepted.
\* After Logout's s.sc = nil the call dereferences a nil client.
MsgChannelPostRecordsError(t, channelID, text, ok) ==
    /\ alive
    /\ snd[t].pc = "idle"
    /\ IF sc = "nil" THEN Die("panic")
       ELSE IF ok THEN Posted(t, ToUpper(channelID), text)
       ELSE /\ snd' = [snd EXCEPT ![t] = [pc |-> "idle", res |-> <<>>, err |-> "error"]]
            /\ msgLast' = MapPut(msgLast, ToUpper(channelID), <<>>)
            /\ UNCHANGED <<inq, tr, emitted, lastEv, trLog, clock, sent, susers, ghost, alive>>
MsgChannelPost(t, channelID, text, ok) ==
    /\ alive
    /\ snd[t].pc = "idle"
    /\ IF sc = "nil" THEN Die("panic")
       ELSE IF ok THEN Posted(t, ToUpper(channelID), text) ELSE SendFailed(t)

\* MsgUser up to PostMessage's return; convOk is whether OpenConversation
\* succeeded.
MsgUserPost(t, username, text, convOk, ok) ==
    /\ alive
    /\ snd[t].pc = "idle"
    /\ IF sc = "nil" THEN Die("panic")
       ELSE IF convOk /\ ok THEN Posted(t, DMChannel(username), text)
       ELSE SendFailed(t)

\* The rest of MsgChannel and MsgUser, s.msgLast[key] = msgID; return msgID, in
\* two steps.  s.RLock() is a shared lock: it is granted to every caller while
\* no writer holds s, and nothing here takes the write lock, so the call enters
\* the assignment whatever the other goroutines do.
MsgRecordBegin(t) ==
    /\ alive
    /\ snd[t].pc = "posted"
    /\ snd' = [snd EXCEPT ![t].pc = "recording"]
    /\ UNCHANGED <<msgLast, inq, tr, emitted, lastEv, trLog, clock, sent, susers, ghost, alive>>

\* The assignment and the return.  Alone, it stores the id.  While another
\* goroutine is in its assignment the two writes of the map race: the id is
\* stored, or the write is lost, or the runtime ends the process with
\* "concurrent map writes".
RecordOutcomes == {"stored", "lost", "fatal"}

MsgRecordEnd(t, outcome) ==
    /\ alive
    /\ snd[t].pc = "recording"
    /\ outcome \in RecordOutcomes
    /\ (\A o \in Threads \ {t} : snd[o].pc # "recording") => outcome = "stored"
    /\ IF outcome = "fatal" THEN Die("fatal")
       ELSE /\ msgLast' = IF outcome = "stored"
                          THEN MapPut(msgLast, snd[t].key, snd[t].msgID)
                          ELSE msgLast
            /\ snd' = [snd EXCEPT ![t] = [pc |-> "idle", res |-> snd[t].msgID,
                                          err |-> "nil"]]
            /\ UNCHANGED <<inq, tr, emitted, lastEv, trLog, clock, sent, susers, ghost, alive>>

\* A message the backend originates and the connection delivers: another
\* user's, or one another session of the local account sent.
BackendMessage(user, channel, text) ==
    /\ alive
    /\ rtm = "connected"
    /\ clock < MaxMessages
    /\ clock' = clock + 1
    /\ inq' = Append(inq, MessageEvent(user, channel, TsStr(clock + 1), text))
    /\ UNCHANGED <<msgLast, snd, tr, emitted, lastEv, trLog, sent, susers, ghost, alive>>

\* A *slack.User: nil, or the id and the name of a user.
NilUser == [nil |-> TRUE]
\* The name the backend has on record for a user id.
BackendName(id) == <<"@">> \o id
SlackUser(id, name) == [nil |-> FALSE, ID |-> id, Name |-> name]

\* rtm.GetUserInfo(id): the user, or nil and an error when ok is false.
GetUserInfo(id, ok) == IF ok THEN SlackUser(id, BackendName(id)) ELSE NilUser

\* Another event of the backend's stream arrives, over a connection that is
\* up, while none is waiting.
BackendEvent(ev) ==
    /\ alive
    /\ rtm = "connected"
    /\ clock < MaxMessages
    /\ inq = <<>>
    /\ clock' = clock + 1
    /\ inq' = <<ev>>
    /\ UNCHANGED <<msgLast, snd, tr, emitted, lastEv, trLog, sent, susers, ghost, alive>>

\* createUser, with slack.PreferNickname and slack.UseDisplayName off.
CreateUser(slackuser) ==
    IF slackuser.nil
    THEN [Nick |-> <<>>, User |-> <<>>, Ghost |-> FALSE, Me |-> FALSE]
    ELSE [Nick |-> slackuser.Name, User |-> slackuser.ID, Ghost |-> TRUE,
          Me |-> (slackuser.ID = Me)]

\* cleanupMessage and formatTS, left uninterpreted.
CleanupMessage(msg) == <<"cleanupMessage", msg>>
FormatTS(ts) == <<"formatTS">> \o ts

\* What the lookups of one event's handling find.  The backend's answers: uok
\* GetUserInfo of the sender, bok GetBotInfo, cok GetUsersInConversation, mok
\* GetUserInfo of a member or of an inviter, meok GetUserInfo of the local
\* account in GetMe.  The session's state: sc is s.sc, susers the ids in the
\* cache; here a session that is logged in and has cached nobody.
Env(uok, bok, cok, mok, meok) ==
    [uok |-> uok, bok |-> bok, cok |-> cok, mok |-> mok, meok |-> meok,
     sc |-> "client", susers |-> {}]

\* The same answers in a session whose s.sc is client and whose cache is cache.
Lookup(env, client, cache) == [env EXCEPT !.sc = client, !.susers = cache]

\* The receiver of a direct message the local account sent: the last member of
\* the conversation that is not s.GetMe().User.
RECURSIVE Receiver(_, _, _)
Receiver(members, r, env) ==
    IF members = <<>> THEN r
    ELSE Receiver(Tail(members),
                  IF Head(members) = CreateUser(GetUserInfo(Me, env.meok)).User
                  THEN r
                  ELSE CreateUser(GetUserInfo(Head(members), env.mok)),
                  env)

DirectMessage(sender, receiver, msg, channelID) ==
    [Type |-> "direct_message", Text |-> msg, ChannelID |-> channelID,
     Sender |-> sender, Receiver |-> receiver]

ChannelMessage(g, msg, channelID) ==
    [Type |-> "channel_message", Text |-> msg, ChannelID |-> channelID,
     Sender |-> g]

\* The event one line is sent as: a direct message on a channel whose id starts
\* with "D", else a channel message.
SendLine(g, msg, channelID, env) ==
    IF HasPrefix(channelID, "D")
    THEN DirectMessage(g,
                       IF g.Me
                       THEN Receiver(IF env.cok THEN DMMembers ELSE <<>>, g, env)
                       ELSE g,
                       msg, channelID)
    ELSE ChannelMessage(g, msg, channelID)

\* Sending a line dereferences s.sc when the line is of a direct conversation
\* and the local account's (lines 834 and 371; 588 in handleActionMisc): a nil
\* dereference once Logout has set s.sc to nil.
LinePanics(g, channelID, env) ==
    HasPrefix(channelID, "D") /\ g.Me /\ env.sc = "nil"

\* "Is this really the message we just sent"
IsEchoNotNewer(lastmsg, ts) == ~StrLess(lastmsg, ts)
IsEcho(lastmsg, ts) == lastmsg = ts

\* getSlackUserFromMessage: the sender, an error, or a nil dereference.
GetSlackUserFromMessage(ev, env) ==
    IF ev.SubType = MessageChanged /\ ev.SubMessage.nil
    THEN [panic |-> TRUE]
    ELSE IF ev.SubType = BotMessage
    THEN IF ev.Username = <<>>
         THEN IF env.bok
              THEN [panic |-> FALSE, err |-> FALSE,
                    user |-> SlackUser(ev.BotID, <<"b", "o", "t">> \o ev.BotID)]
              ELSE [panic |-> TRUE]
         ELSE [panic |-> FALSE, err |-> FALSE,
               user |-> SlackUser(ev.BotID, ev.Username)]
    ELSE LET usr == IF ev.SubType = MessageDeleted
                    THEN <<"U", "S", "L", "A", "C", "K", "B", "O", "T">>
                    ELSE IF ev.SubType = MessageChanged THEN ev.SubMessage.User
                    ELSE ev.User
         IN  [panic |-> FALSE, err |-> ~env.uok, user |-> GetUserInfo(usr, env.uok)]

\* The rows of one attachment body: each quoted, and "> ..." after the row
\* whose index is above 4, which ends the loop.
RECURSIVE AttachRows(_, _)
AttachRows(rows, idx) ==
    IF rows = <<>> THEN <<>>
    ELSE LET line == <<">", " ">> \o Head(rows)
         IN  IF idx > 4
             THEN <<line, <<">", " ", ".", ".", ".">> >>
             ELSE <<line>> \o AttachRows(Tail(rows), idx + 1)

\* The lines of the attachments: the pretext's lines, then the body's rows.
RECURSIVE AttachLines(_)
AttachLines(atts) ==
    IF atts = <<>> THEN <<>>
    ELSE LET a == Head(atts)
         IN  (IF a.Pretext # <<>> THEN Split(a.Pretext) ELSE <<>>)
             \o (IF a.Text # <<>> THEN AttachRows(Split(a.Text), 0) ELSE <<>>)
             \o AttachLines(Tail(atts))

\* One line per file.
FileLines(files) ==
    [k \in 1..Len(files) |->
        <<"U", "p", "l", "o", "a", "d", "e", "d", " ">> \o files[k].Mode \o <<" ">>
        \o files[k].Name \o <<" ", "/", " ">> \o files[k].Title \o <<" ", "(">>
        \o files[k].Filetype \o <<")", ":", " ">> \o files[k].URLPrivate]

\* msgs[0] = marker + msgs[0] when there is a first line.
PrefixEvery(msgs, marker) == [k \in 1..Len(msgs) |-> marker \o msgs[k]]
PrefixFirst(msgs, marker) ==
    IF Len(msgs) > 0 THEN <<marker \o msgs[1]>> \o Tail(msgs) ELSE msgs

\* The lines handleSlackActionPost builds for a message (lines 746-814).
MessageLines(ev) ==
    LET text == IF ev.SubType = MessageDeleted
                THEN <<"[", "M", " ">> \o FormatTS(ev.DeletedTimestamp) \o
                     <<"]", " ", "M", "e", "s", "s", "a", "g", "e", " ",
                       "d", "e", "l", "e", "t", "e", "d">>
                ELSE ev.Text
        body == IF text # <<>> THEN Split(text) ELSE <<>>
        msgs1 == body \o AttachLines(ev.Attachments) \o FileLines(ev.Files)
        msghandled ==
            \/ text # <<>>
            \/ \E k \in 1..Len(ev.Attachments) :
                  ev.Attachments[k].Pretext # <<>> \/ ev.Attachments[k].Text # <<>>
            \/ ev.Files # <<>>
        msgs2 == IF msghandled /\ ev.ThreadTimestamp # <<>>
                 THEN PrefixFirst(msgs1, <<"[", "T", " ">> \o
                                  FormatTS(ev.ThreadTimestamp) \o <<"]", " ">>)
                 ELSE msgs1
    IN  IF ev.SubType = MessageChanged
        THEN PrefixFirst(msgs2 \o Split(ev.SubMessage.Text),
                         <<"[", "C", " ">> \o FormatTS(ev.SubMessage.Timestamp)
                         \o <<"]", " ">>)
        ELSE msgs2

\* No user: what createUser makes of nil.
NoGhost == CreateUser(NilUser)

\* What handling an event comes to before its first send in a loop: the events
\* sent, the error logged, whether the goroutine dies of a nil dereference,
\* whether the lines of a message are still to be sent, and from whom; and the
\* cache as the lookups leave it.
Produced(out, log, cache) ==
    [emitted |-> out, log |-> log, panic |-> FALSE, more |-> FALSE,
     ghost |-> NoGhost, susers |-> cache]
Panicked ==
    [emitted |-> <<>>, log |-> "panic", panic |-> TRUE, more |-> FALSE,
     ghost |-> NoGhost, susers |-> {}]
Begun(g, cache) ==
    [emitted |-> <<>>, log |-> None, panic |-> FALSE, more |-> TRUE,
     ghost |-> g, susers |-> cache]

\* handleSlackActionPost with the value of s.msgLast[rmsg.Channel] read last, as
\* far as the loop over the lines (lines 728-817).
ActionPost(ev, lastmsg, env) ==
    IF ev.User = Me /\ IsEcho(lastmsg, ev.Timestamp)
    THEN Produced(<<>>, None, env.susers)
    ELSE LET su1 == GetSlackUserFromMessage(ev, env)
         IN  IF su1.panic THEN Panicked
             ELSE IF su1.err
             THEN Produced(<<>>, "couldn't find user in message", env.susers)
             ELSE IF MessageLines(ev) = <<>> THEN Produced(<<>>, None, env.susers)
             ELSE Begun(CreateUser(su1.user), env.susers)

\* handleActionMisc: one informational message from the acting user.
ActionMisc(userID, channelID, msg, env) ==
    IF ~env.uok THEN Produced(<<>>, None, env.susers)
    ELSE LET g == CreateUser(GetUserInfo(userID, TRUE))
         IN  IF LinePanics(g, channelID, env) THEN Panicked
             ELSE Produced(<<SendLine(g, msg, channelID, env)>>, None, env.susers)

\* The text of a reaction, star or pin notice.
NoticeText(ev) ==
    IF ev.Type = "reaction_added"
    THEN <<"[", "M", " ">> \o FormatTS(ev.Item.Timestamp) \o
         <<"]", " ", "A", "d", "d", "e", "d", " ", "r", "e", "a", "c", "t", "i",
           "o", "n", " ", ":">> \o ev.Reaction \o <<":">>
    ELSE IF ev.Type = "reaction_removed"
    THEN <<"[", "M", " ">> \o FormatTS(ev.Item.Timestamp) \o
         <<"]", " ", "R", "e", "m", "o", "v", "e", "d", " ", "r", "e", "a", "c",
           "t", "i", "o", "n", " ", ":">> \o ev.Reaction \o <<":">>
    ELSE <<"[", "M", " ">> \o FormatTS(ev.Item.Message.Timestamp) \o
         <<"]", " ", "M", "e", "s", "s", "a", "g", "e", " ">> \o
         (CASE ev.Type = "star_added" -> <<"s", "t", "a", "r", "r", "e", "d">>
            [] ev.Type = "star_removed" ->
                  <<"u", "n", "s", "t", "a", "r", "r", "e", "d">>
            [] ev.Type = "pin_added" -> <<"p", "i", "n", "n", "e", "d">>
            [] OTHER -> <<"u", "n", "p", "i", "n", "n", "e", "d">>)
         \o <<" ", "(">> \o ev.Item.Message.Text \o <<")">>

\* The star and pin cases of handleSlack: if ev.Item.Message == nil { continue },
\* else the notice is built from the message and handed to handleActionMisc.
ItemAction(ev, env) ==
    IF ev.Item.Message.nil THEN Produced(<<>>, None, env.susers)
    ELSE ActionMisc(ev.User, ev.Item.Channel, NoticeText(ev), env)

\* The GetUser calls a member handler makes, in its order: handleMemberLeftChannel
\* one for the user (line 621), handleMemberJoinedChannel one for the inviter,
\* when the event names one (line 635), and then one for the user (line 643).
MemberLookups(ev) ==
    IF ev.Type = "member_joined_channel" /\ ev.Inviter # <<>>
    THEN <<ev.Inviter, ev.User>>
    ELSE <<ev.User>>

\* handleMemberLeftChannel: the channel_remove event, for the user its GetUser
\* call returned.
MemberLeftChannel(ev, found) ==
    [Type |-> "channel_remove", ChannelID |-> ev.Channel, Removed |-> <<found[1]>>]

\* handleMemberJoinedChannel: the channel_add event, for the user the last
\* GetUser call returned; the adder has the nick the first call returned, and
\* is nil unless the event names an inviter.
MemberJoinedChannel(ev, found) ==
    [Type |-> "channel_add", ChannelID |-> ev.Channel,
     Added |-> <<found[Len(found)]>>,
     Adder |-> IF ev.Inviter # <<>> THEN [nil |-> FALSE, Nick |-> found[1].Nick]
               ELSE Nil]

\* The event a member handler sends, its GetUser calls having returned found.
MemberEvent(ev, found) ==
    IF ev.Type = "member_left_channel" THEN MemberLeftChannel(ev, found)
    ELSE MemberJoinedChannel(ev, found)

\* The body of handleSlack's loop for one event.
Dispatch(ev, lastmsg, env) ==
    IF ev.Type = "message"
    THEN IF ev.SubType \in JoinLeave
         THEN Produced(<<>>, None, env.susers)
         ELSE ActionPost(ev, lastmsg, env)
    ELSE IF ev.Type \in {"reaction_added", "reaction_removed"}
    THEN ActionMisc(ev.User, ev.Item.Channel, NoticeText(ev), env)
    ELSE IF ev.Type \in {"star_added", "star_removed", "pin_added", "pin_removed"}
    THEN ItemAction(ev, env)
    ELSE Produced(<<>>, None, env.susers)

\* Whether handleSlackActionPost sleeps before it compares: the message is the
\* local account's and the recorded id is smaller than the event's.
SleepsNotEarlier(ev, lastmsg) ==
    /\ ev.Type = "message"
    /\ ev.SubType \notin JoinLeave
    /\ ev.User = Me
    /\ ~StrLess(lastmsg, ev.Timestamp)
Sleeps(ev, lastmsg) ==
    /\ ev.Type = "message"
    /\ ev.SubType \notin JoinLeave
    /\ ev.User = Me
    /\ StrLess(lastmsg, ev.Timestamp)

\* Whether handling the event reads s.msgLast (lines 731-732): a message of the
\* local account's own identity.
ReadsMsgLast(ev) ==
    ev.Type = "message" /\ ev.SubType \notin JoinLeave /\ ev.User = Me

\* The record an event is compared with.
LastMsg(ev) == IF ev.Type = "message" THEN MapGet(msgLast, ev.Channel) ELSE <<>>

\* The read of s.msgLast takes no lock.  While a send is in its assignment the
\* read races with the write: it gives what is stored, or the runtime ends the
\* process with "concurrent map read and map write".
RacyRead(ev) == ReadsMsgLast(ev) /\ \E t \in Threads : snd[t].pc = "recording"

\* for msg := range s.rtm.IncomingEvents: the event the loop receives next is
\* the one that has waited longest.
NextEventNewest(q) == q[Len(q)]
NextEvent(q) == Head(q)

\* Whether the event goes to a member handler, which looks users up through
\* GetUser (lines 621, 635, 643).
ReadsCache(ev) == ev.Type \in {"member_left_channel", "member_joined_channel"}

\* getSlackUser takes the read lock only, for its lookup in s.susers (line 917)
\* and for its write of the map (line 928) alike.  The translator's lookup
\* races with a write another goroutine is in: New's s.susers[mmuser.ID] =
\* mmuser (line 65), which takes no lock, or line 928 of a GetUser call; its
\* write races with those and with the lookup such a call is in.  The access
\* then goes through, or the runtime ends the process with "concurrent map
\* writes" or "concurrent map read and map write".
RacyCacheRead == lpc = "assign" \/ gu.pc = "write"
RacyCacheWrite == lpc = "assign" \/ gu.pc \in {"read", "write"}

\* The handling of the event at the head of the stream from the compare on, as
\* far as its first send on eventChan: the lookups are made and the event to
\* send is built (a handler with one send), or the loop over the lines of a
\* message is entered.  A nil dereference is a panic nothing recovers: it ends
\* the process.  The lookups of these handlers ask the backend and write
\* nothing of the session, so that a Logout between two of them leaves no
\* trace but the panic: s.sc goes from the client to nil and never back, and
\* they find what the last of them finds.  The member handlers, whose lookups
\* write the cache, are not handled here.
Handled(ev, lastmsg, env) ==
    LET out == Dispatch(ev, lastmsg, env)
        sends == out.emitted # <<>>
    IN  IF out.panic THEN Die("panic") /\ UNCHANGED sendVars
        ELSE /\ lastEv' = ev
             /\ emitted' = <<>>
             /\ pending' = IF sends THEN out.emitted[1] ELSE NoEvent
             /\ trLog' = out.log
             /\ susers' = out.susers
             /\ ghost' = out.ghost
             /\ tr' = IF out.more THEN "lines" ELSE IF sends THEN "send" ELSE "idle"
             /\ inq' = IF out.more \/ sends THEN inq ELSE Tail(inq)
             /\ UNCHANGED <<msgLast, snd, clock, sent, alive, gu, lk>>

\* handleSlack hands a member event to its handler (lines 521-524), which is at
\* its first GetUser call.
HandleMember(ev) ==
    /\ lastEv' = ev
    /\ emitted' = <<>>
    /\ trLog' = None
    /\ ghost' = NoGhost
    /\ tr' = "GetUser"
    /\ lk' = [todo |-> MemberLookups(ev), found |-> <<>>]
    /\ UNCHANGED <<msgLast, snd, inq, clock, sent, susers, alive, pending, gu>>

\* handleSlack, the goroutine line 503 started, takes the next event; an own
\* message newer than the recorded one makes it sleep 100ms first.
HandleSlack(env) ==
    /\ alive
    /\ "handleSlack" \in started
    /\ tr = "idle"
    /\ inq # <<>>
    /\ LET ev == NextEvent(inq)
       IN  \/ IF Sleeps(ev, LastMsg(ev))
              THEN /\ tr' = "sleep"
                   /\ UNCHANGED <<msgLast, snd, inq, emitted, lastEv, trLog, clock,
                                  sent, susers, ghost, alive, sendVars>>
              ELSE IF ReadsCache(ev) THEN HandleMember(ev)
              ELSE Handled(ev, LastMsg(ev), Lookup(env, sc, susers))
           \/ RacyRead(ev) /\ Die("fatal") /\ UNCHANGED sendVars

\* The sleep is over: s.msgLast[rmsg.Channel] is read again.
HandleSlackWake(env) ==
    /\ alive
    /\ tr = "sleep"
    /\ \/ Handled(NextEvent(inq), LastMsg(NextEvent(inq)), Lookup(env, sc, susers))
       \/ RacyRead(NextEvent(inq)) /\ Die("fatal") /\ UNCHANGED sendVars

\* One turn of the loop over the lines of the message as far as its send (lines
\* 818-846): the receiver of the line is looked up, which ends the process when
\* s.sc is nil, and the event is built.
HandleSlackLine(env) ==
    /\ alive
    /\ tr = "lines"
    /\ LET msgs == MessageLines(lastEv)
           k == Len(emitted) + 1
           e == Lookup(env, sc, susers)
       IN  IF LinePanics(ghost, lastEv.Channel, e)
           THEN Die("panic") /\ UNCHANGED sendVars
           ELSE /\ pending' = SendLine(ghost, CleanupMessage(msgs[k]),
                                       lastEv.Channel, e)
                /\ tr' = "send"
                /\ UNCHANGED <<msgLast, snd, inq, emitted, lastEv, trLog, clock, sent,
                               susers, ghost, alive, gu, lk>>

\* Whether the loop over the lines of the event has lines to send after n sends.
MoreLines(ev, n) == ev.Type = "message" /\ n < Len(MessageLines(ev))

\* s.eventChan <- event (lines 612, 627, 649, 711, 724): the send waits until the
\* event is taken, whatever happened to the session since the lookups.  The
\* handler then returns, or the loop over the lines goes on; after the last
\* send the handling of the backend's event is over.
HandleSlackSend ==
    /\ alive
    /\ tr = "send"
    /\ emitted' = Append(emitted, pending)
    /\ pending' = NoEvent
    /\ LET more == MoreLines(lastEv, Len(emitted) + 1)
       IN  /\ tr' = IF more THEN "lines" ELSE "idle"
           /\ inq' = IF more THEN inq ELSE Tail(inq)
           /\ ghost' = IF more THEN ghost ELSE NoGhost
    /\ UNCHANGED <<msgLast, snd, lastEv, trLog, clock, sent, susers, alive, gu, lk>>

\* A GetUser call of the member handler returns info, createUser of what
\* getSlackUser returned (line 367): the handler makes its next GetUser call, or
\* it has its event and is at the send (lines 627, 649).
GetUserReturns(info) ==
    LET found == Append(lk.found, info)
        rest == Tail(lk.todo)
    IN  IF rest # <<>>
        THEN /\ lk' = [todo |-> rest, found |-> found]
             /\ tr' = "GetUser"
             /\ UNCHANGED pending
        ELSE /\ lk' = NoLookup
             /\ tr' = "send"
             /\ pending' = MemberEvent(lastEv, found)

\* getSlackUser in the translator, lines 914-920: the read lock is taken, which
\* is granted whoever else reads, and the user is looked up in s.susers; one
\* that is there is returned.
HandleSlackGetUser ==
    /\ alive
    /\ tr = "GetUser"
    /\ \/ /\ IF Head(lk.todo) \in susers
             THEN GetUserReturns(CreateUser(SlackUser(Head(lk.todo),
                                                      BackendName(Head(lk.todo)))))
             ELSE tr' = "ask" /\ UNCHANGED <<pending, lk>>
          /\ UNCHANGED <<msgLast, snd, inq, emitted, lastEv, trLog, clock, sent, susers,
                         ghost, alive, gu>>
       \/ RacyCacheRead /\ Die("fatal") /\ UNCHANGED sendVars

\* getSlackUser in the translator, lines 922-926: s.sc.GetUserInfo(userID) is
\* called with s.sc as it is now, a nil dereference when it is nil; ok: the
\* backend answers with the user, and getSlackUser is then waiting at its write;
\* without an answer it returns nil.
HandleSlackAsk(ok) ==
    /\ alive
    /\ tr = "ask"
    /\ IF sc = "nil" THEN Die("panic") /\ UNCHANGED sendVars
       ELSE /\ IF ok THEN tr' = "store" /\ UNCHANGED <<pending, lk>>
                ELSE GetUserReturns(CreateUser(NilUser))
            /\ UNCHANGED <<msgLast, snd, inq, emitted, lastEv, trLog, clock, sent,
                           susers, ghost, alive, gu>>

\* getSlackUser in the translator, lines 928-930: s.susers[user.ID] = *user under
\* the read lock, whatever s.sc is by now, and the return of the user.
HandleSlackStore ==
    /\ alive
    /\ tr = "store"
    /\ \/ /\ susers' = susers \cup {Head(lk.todo)}
          /\ GetUserReturns(CreateUser(SlackUser(Head(lk.todo),
                                                 BackendName(Head(lk.todo)))))
          /\ UNCHANGED <<msgLast, snd, inq, emitted, lastEv, trLog, clock, sent, ghost,
                         alive, gu>>
       \/ RacyCacheWrite /\ Die("fatal") /\ UNCHANGED sendVars

\* GetUser(userID) is called on the session New returned, by a goroutine other
\* than the translator's (line 367; GetChannelUsers makes the same calls of
\* getSlackUser, lines 286 and 296): getSlackUser takes the read lock, which is
\* granted whoever else reads, and is at the lookup of line 917.
GetUserCall(userID) ==
    /\ alive
    /\ SlackSession
    /\ gu.pc = "idle"
    /\ gu' = [gu EXCEPT !.pc = "read", !.id = userID]
    /\ UNCHANGED <<msgLast, snd, inq, tr, emitted, lastEv, trLog, clock, sent, susers,
                   ghost, alive, pending, lk>>

\* Lines 917-920 of the call: a user of the cache is returned; on a miss the
\* call goes on to ask the backend.
GetUserLookup ==
    /\ alive
    /\ gu.pc = "read"
    /\ gu' = IF gu.id \in susers
             THEN [gu EXCEPT !.pc = "idle",
                             !.res = CreateUser(SlackUser(gu.id, BackendName(gu.id)))]
             ELSE [gu EXCEPT !.pc = "ask"]
    /\ UNCHANGED <<msgLast, snd, inq, tr, emitted, lastEv, trLog, clock, sent, susers,
                   ghost, alive, pending, lk>>

\* Lines 922-926 of the call: s.sc.GetUserInfo(userID) with s.sc as it is now, a
\* nil dereference when it is nil; ok: the backend answers with the user, and
\* the call is then at its write; without an answer nil is returned.
GetUserAsk(ok) ==
    /\ alive
    /\ gu.pc = "ask"
    /\ IF sc = "nil" THEN Die("panic") /\ UNCHANGED sendVars
       ELSE /\ gu' = IF ok THEN [gu EXCEPT !.pc = "write"]
                     ELSE [gu EXCEPT !.pc = "idle", !.res = CreateUser(NilUser)]
            /\ UNCHANGED <<msgLast, snd, inq, tr, emitted, lastEv, trLog, clock,
                           sent, susers, ghost, alive, pending, lk>>

\* Line 928 of the call, s.susers[user.ID] = *user under the read lock, and the
\* return of the user.
GetUserStore ==
    /\ alive
    /\ gu.pc = "write"
    /\ susers' = susers \cup {gu.id}
    /\ gu' = [gu EXCEPT !.pc = "idle",
                        !.res = CreateUser(SlackUser(gu.id, BackendName(gu.id)))]
    /\ UNCHANGED <<msgLast, snd, inq, tr, emitted, lastEv, trLog, clock, sent, ghost,
                   alive, pending, lk>>

\* ---------------------------------------------------------- slack login
\* The number of polls after which loginToSlack gives up (line 493).
sinfoTries == 20

\* The loop of allowedLogin over a list (lines 423-428, 438-443).
RECURSIVE Contains(_, _)
Contains(list, x) ==
    IF list = <<>> THEN FALSE
    ELSE IF Head(list) = x THEN TRUE
    ELSE Contains(Tail(list), x)

\* allowedLogin (lines 418-451): the error it returns, or "nil".
AllowedLogin(v, info) ==
    IF Len(v.restrict) > 0 /\ ~Contains(v.restrict, info.Domain)
    THEN "Not allowed to connect to slack"
    ELSE IF Len(v.DenyUsers) > 0 /\ Contains(v.DenyUsers, info.Name)
    THEN "not allowed to connect"
    ELSE "nil"

\* New calls loginToSlack (lines 453-483): the token is fetched, the rtm client
\* is made and go s.rtm.ManageConnection() starts connecting.
LoginToSlack(v, tokenOk) ==
    /\ alive
    /\ lpc = "idle"
    /\ viper' = v
    /\ IF tokenOk
       THEN /\ rtm' = "connecting"
            /\ sc' = "client"
            /\ lpc' = "GetInfo"
            /\ UNCHANGED newErr
       ELSE /\ newErr' = "token"
            /\ lpc' = "done"
            /\ UNCHANGED <<rtm, sc>>
    /\ UNCHANGED <<rtmInfo, sinfo, count, started, connected, nu>>

\* ManageConnection's goroutine: the connection is made and the team's and the
\* account's details are known from then on.
ManageConnection(info) ==
    /\ alive
    /\ rtm = "connecting"
    /\ rtm' = "connected"
    /\ rtmInfo' = info
    /\ UNCHANGED <<viper, sinfo, count, started, connected, newErr, lpc, nu, sc>>

\* Line 487: the first s.sinfo = s.rtm.GetInfo().
GetInfo ==
    /\ alive
    /\ lpc = "GetInfo"
    /\ sinfo' = rtmInfo
    /\ lpc' = IF rtmInfo.nil THEN "Sleep" ELSE "allowedLogin"
    /\ UNCHANGED <<viper, rtm, rtmInfo, count, started, connected, newErr, nu, sc>>

\* One turn of the loop at lines 488-496: sleep, read again, count, give up when
\* the count is sinfoTries.
Sleep ==
    /\ alive
    /\ lpc = "Sleep"
    /\ sinfo' = rtmInfo
    /\ count' = count + 1
    /\ IF count + 1 = sinfoTries
       THEN /\ newErr' = "couldn't connect in 10 seconds"
            /\ lpc' = "done"
            /\ sc' = "nil"
       ELSE /\ lpc' = IF rtmInfo.nil THEN "Sleep" ELSE "allowedLogin"
            /\ UNCHANGED <<newErr, sc>>
    /\ UNCHANGED <<viper, rtm, rtmInfo, started, connected, nu>>

\* Lines 498-501: the policy check; when it fails the connection is given up
\* and New returns the error.
Allowed ==
    /\ alive
    /\ lpc = "allowedLogin"
    /\ LET err == AllowedLogin(viper, sinfo)
       IN  IF err # "nil"
           THEN /\ rtm' = "disconnected"
                /\ newErr' = err
                /\ sc' = "nil"
                /\ lpc' = "done"
           ELSE /\ lpc' = "handleSlack"
                /\ UNCHANGED <<rtm, newErr, sc>>
    /\ UNCHANGED <<viper, rtmInfo, sinfo, count, started, connected, nu>>

\* Line 503: go s.handleSlack(); the translator runs from here on.
GoHandleSlack ==
    /\ alive
    /\ lpc = "handleSlack"
    /\ started' = started \cup {"handleSlack"}
    /\ lpc' = "onConnect"
    /\ UNCHANGED <<viper, rtm, rtmInfo, sinfo, count, connected, newErr, nu, sc>>
    /\ UNCHANGED slackVars

\* Line 504: go s.onConnect().
GoOnConnect ==
    /\ alive
    /\ lpc = "onConnect"
    /\ started' = started \cup {"onConnect"}
    /\ lpc' = "connected"
    /\ UNCHANGED <<viper, rtm, rtmInfo, sinfo, count, connected, newErr, nu, sc>>
    /\ UNCHANGED slackVars

\* Lines 506-508, s.connected = true and the return of s.sc and nil, which New
\* assigns (lines 51-54).
LoginReturn ==
    /\ alive
    /\ lpc = "connected"
    /\ connected' = TRUE
    /\ newErr' = "nil"
    /\ lpc' = "msgLast"
    /\ UNCHANGED <<viper, rtm, rtmInfo, sinfo, count, started, nu, sc>>
    /\ UNCHANGED slackVars

\* New, line 56: s.msgLast = make(map[string]string), with no lock held while
\* the translator runs; the translator reads "" for every channel of the map
\* that was there and of the one that is.
NewMsgLast ==
    /\ alive
    /\ lpc = "msgLast"
    /\ msgLast' = EmptyMap
    /\ lpc' = "GetUsers"
    /\ UNCHANGED <<viper, rtm, rtmInfo, sinfo, count, started, connected, newErr, nu,
                   sc>>
    /\ UNCHANGED <<snd, inq, tr, emitted, lastEv, trLog, clock, sent, susers, ghost>>

\* New, line 58: users, _ := s.sc.GetUsers(); us: the users the backend answers
\* with, none when the call failed.
NewGetUsers(us) ==
    /\ alive
    /\ lpc = "GetUsers"
    /\ nu' = us
    /\ lpc' = "range"
    /\ UNCHANGED <<viper, rtm, rtmInfo, sinfo, count, started, connected, newErr, sc>>
    /\ UNCHANGED <<msgLast, snd, inq, tr, emitted, lastEv, trLog, clock, sent, susers,
                   ghost>>

\* New, lines 59-70: the next user of the range.  The local account is passed
\* over; for another the goroutine enters the assignment of line 65, with no
\* lock held; after the last user New returns the session.
NewRange ==
    /\ alive
    /\ lpc = "range"
    /\ IF nu = <<>>
       THEN lpc' = "done" /\ UNCHANGED nu
       ELSE IF Head(nu) = Me
       THEN nu' = Tail(nu) /\ UNCHANGED lpc
       ELSE lpc' = "assign" /\ UNCHANGED nu
    /\ UNCHANGED <<viper, rtm, rtmInfo, sinfo, count, started, connected, newErr, sc>>
    /\ UNCHANGED <<msgLast, snd, inq, tr, emitted, lastEv, trLog, clock, sent, susers,
                   ghost>>

\* New, line 65: s.susers[mmuser.ID] = mmuser is done.
NewAssign ==
    /\ alive
    /\ lpc = "assign"
    /\ susers' = susers \cup {Head(nu)}
    /\ nu' = Tail(nu)
    /\ lpc' = "range"
    /\ UNCHANGED <<viper, rtm, rtmInfo, sinfo, count, started, connected, newErr, sc>>
    /\ UNCHANGED <<msgLast, snd, inq, tr, emitted, lastEv, trLog, clock, sent, ghost>>

\* The steps of New after loginToSlack let the account in.
NewSteps ==
    \/ GoHandleSlack
    \/ GoOnConnect
    \/ LoginReturn
    \/ NewMsgLast
    \/ \E us \in GetUsersAnswers : NewGetUsers(us)
    \/ NewRange
    \/ NewAssign

\* The calls of Slack.Logout that were made: <<None, 0>> is the one a caller
\* other than server.Quit makes, <<c, k>> the one the k-th Quit call of c makes.
LogoutCalls ==
    {<<None, 0>>} \cup UNION {{<<c, k>> : k \in DOMAIN qpc[c]} : c \in Conns}

\* Where the call w of Slack.Logout stands.
LogoutAt(w) == IF w[1] = None THEN lo ELSE qpc[w[1]][w[2]]

\* The call w goes on to pc; "return": it returns, and with it the Quit call
\* that made it.
LogoutGoes(w, pc) ==
    IF w[1] = None
    THEN /\ lo' = IF pc = "return" THEN "idle" ELSE pc
         /\ UNCHANGED qpc
    ELSE /\ qpc' = [qpc EXCEPT ![w[1]][w[2]] = IF pc = "return" THEN "called" ELSE pc]
         /\ UNCHANGED lo

\* Slack.Logout is called on the session New returned, by a caller other than
\* server.Quit.
SlackLogoutCall ==
    /\ alive
    /\ SlackSession
    /\ lo = "idle"
    /\ lo' = "Disconnect"
    /\ UNCHANGED <<regVars, chanVars, loopVars, loginVars, qpc, closing, lg,
                   logoutEvents, closed, batch>>

\* Slack.Logout, lines 125-129: err := s.rtm.Disconnect(), and the return when
\* it failed; ok: it returned no error, which it does not for a connection that
\* is disconnected already.
SlackLogout(w, ok) ==
    /\ alive
    /\ LogoutAt(w) = "Disconnect"
    /\ ok => rtm = "connected"
    /\ IF ok
       THEN /\ rtm' = "disconnected"
            /\ LogoutGoes(w, "sc")
       ELSE /\ LogoutGoes(w, "return")
            /\ UNCHANGED rtm
    /\ UNCHANGED <<viper, rtmInfo, sinfo, count, started, connected, newErr, lpc, nu,
                   sc>>
    /\ UNCHANGED <<regVars, chanVars, loopVars, closing, lg, logoutEvents, closed, batch>>

\* Line 131: s.sc = nil.
SlackLogoutSc(w) ==
    /\ alive
    /\ LogoutAt(w) = "sc"
    /\ sc' = "nil"
    /\ LogoutGoes(w, "send")
    /\ UNCHANGED <<viper, rtm, rtmInfo, sinfo, count, started, connected, newErr, lpc,
                   nu>>
    /\ UNCHANGED <<regVars, chanVars, loopVars, closing, lg, logoutEvents, closed, batch>>

\* Lines 135-138: the send of the logout event on eventChan, which waits until
\* the event is taken.
SlackLogoutSend(w) ==
    /\ alive
    /\ LogoutAt(w) = "send"
    /\ logoutEvents' = logoutEvents + 1
    /\ LogoutGoes(w, "connected")
    /\ UNCHANGED <<regVars, chanVars, loopVars, loginVars, closing, lg, closed, batch>>

\* Lines 140-142: s.connected = false; return nil.
SlackLogoutFlag(w) ==
    /\ alive
    /\ LogoutAt(w) = "connected"
    /\ connected' = FALSE
    /\ LogoutGoes(w, "return")
    /\ UNCHANGED <<viper, rtm, rtmInfo, sinfo, count, started, newErr, lpc, nu, sc>>
    /\ UNCHANGED <<regVars, chanVars, loopVars, closing, lg, logoutEvents, closed, batch>>

\* The steps of the calls of Slack.Logout after the calls themselves.
SlackLogoutSteps ==
    \/ \E w \in LogoutCalls, ok \in BOOLEAN : SlackLogout(w, ok)
    \/ \E w \in LogoutCalls : SlackLogoutSc(w)
    \/ \E w \in LogoutCalls : SlackLogoutSend(w)
    \/ \E w \in LogoutCalls : SlackLogoutFlag(w)

\* ------------------------------------------------------- specifications
MemberChans == {<<"X">>, <<"Y">>}

\* The lines a client sends under Spec.
RegLines ==
    {Msg("NICK", <<n>>, <<>>) : n \in {<<"a">>, <<"A">>, <<"a", "b", "a">>}}
    \cup {Msg("USER", << <<"u">> >>, <<"R">>)}

\* The nicks RenameUser is called with under Spec.
RenameArgs == {<<"A">>, <<"a", "b">>, <<"A", "B", "b">>}

\* The lines a client sends under SpecHandshake.
HandshakeLines ==
    {NilMsg}
    \cup {Msg("NICK", <<n>>, <<>>) : n \in {<<"a">>, <<"a", "b", "a">>}}
    \cup {Msg("NICK", <<>>, <<"b">>), Msg("NICK", <<>>, <<>>)}
    \cup {Msg("USER", << <<"u">> >>, <<"R">>), Msg("USER", <<>>, <<"R">>)}
    \cup {Msg("PASS", << <<"p">> >>, <<>>), Msg("PASS", << <<"p">> >>, <<"q">>),
          Msg("PASS", <<>>, <<>>)}
    \cup {Msg("JOIN", << <<"#">> >>, <<>>), Msg("JOIN", <<>>, <<"#">>)}
    \cup {Msg("PING", << <<"x">> >>, <<>>)}

\* Steps of one part of the program leave the other parts alone.
RegistryOnly ==
    UNCHANGED <<chanVars, slackVars, loopVars, loginVars, readVars, callVars,
                procVars, sendVars>>
\* Steps of the bridge say themselves whether the process goes on.
SlackOnly ==
    UNCHANGED <<regVars, chanVars, loopVars, loginVars, readVars, callVars, sendVars>>
\* Steps of the translator and of GetUser say what becomes of the event in the
\* send and of the call as well.
TranslatorOnly ==
    UNCHANGED <<regVars, chanVars, loopVars, loginVars, readVars, callVars>>
LoopOnly ==
    UNCHANGED <<chanVars, slackVars, loginVars, readVars, callVars, procVars,
                sendVars>>
\* Steps of Quit, server.Close, server.Logout and Slack.Logout say themselves what
\* they leave alone of the registry, the channel index, the loops and the login.
CallsOnly == UNCHANGED <<slackVars, readVars, procVars, sendVars>>
\* Steps of Channel and UnlinkChannel say what they leave alone of the registry,
\* the channel index and the bridge, and whether the process goes on.
ChannelsOnly == UNCHANGED <<loopVars, loginVars, readVars, callVars, sendVars>>
LoginOnly ==
    UNCHANGED <<regVars, chanVars, slackVars, loopVars, readVars, callVars, procVars,
                sendVars>>
\* Steps of New say what they leave alone of the login and of the bridge.
NewOnly ==
    UNCHANGED <<regVars, chanVars, loopVars, readVars, callVars, procVars, sendVars>>
ReadOnly ==
    UNCHANGED <<regVars, chanVars, slackVars, loopVars, loginVars, callVars, procVars,
                sendVars>>

\* The registry under concurrent Connect and RenameUser calls.
Next ==
    \/ \E c \in Conns : ConnectStart(c) /\ RegistryOnly
    \/ \E c \in Conns, m \in RegLines :
          /\ i[c] > handshakeMsgTolerance - MaxRegLines
          /\ HandshakeMsg(c, m)
          /\ RegistryOnly
    \/ \E c \in Conns : HandshakeSteps(c, {"ok"}) /\ RegistryOnly
    \/ \E c \in Conns : HandshakeTimeout(c) /\ RegistryOnly
    \/ \E t \in Threads, u \in Conns, n \in RenameArgs :
          RenameBegin(t, u, n) /\ RegistryOnly
    \/ \E t \in Threads : RenameSteps(t) /\ RegistryOnly

Spec == Init /\ [][Next]_vars

\* One connection's handshake on every kind of line, beside a ghost that is added
\* and renamed.
NextHandshake ==
    \/ ConnectStart("c1") /\ RegistryOnly
    \/ \E m \in HandshakeLines : HandshakeMsg("c1", m) /\ RegistryOnly
    \/ HandshakeSteps("c1", WelcomeOutcomes) /\ RegistryOnly
    \/ HandshakeTimeout("c1") /\ RegistryOnly
    \/ \E n \in {<<"a">>, <<"A", "B">>} : Add("g1", n) /\ RegistryOnly
    \/ AddInsert("g1") /\ RegistryOnly
    \/ \E n \in {<<"b">>, <<"A">>} : RenameBegin("t1", "g1", n) /\ RegistryOnly
    \/ RenameSteps("t1") /\ RegistryOnly

SpecHandshake == Init /\ [][NextHandshake]_vars

\* One connection's handshake beside one ghost with time passing and the
\* scheduler running: the select of the
\* handshake's loop returns, with a line or with the 10 seconds' timeout, and a
\* RenameUser or Add call that holds the lock goes on to its end.  The
\* handshake's own steps wait for the lock in add (line 389) and in Len (line
\* 294): sync.RWMutex hands the lock to a goroutine that waits for it, however
\* often others take it, so a step that can be taken again and again is taken.
SelectReturns(c) ==
    \/ \E m \in HandshakeLines : HandshakeMsg(c, m)
    \/ HandshakeTimeout(c)

NextHandshakeFair ==
    \/ ConnectStart("c1") /\ RegistryOnly
    \/ \E m \in HandshakeLines : HandshakeMsg("c1", m) /\ RegistryOnly
    \/ HandshakeSteps("c1", WelcomeOutcomes) /\ RegistryOnly
    \/ HandshakeTimeout("c1") /\ RegistryOnly
    \/ Add("g1", <<"a">>) /\ RegistryOnly
    \/ AddInsert("g1") /\ RegistryOnly
    \/ RenameBegin("t1", "g1", <<"b">>) /\ RegistryOnly
    \/ RenameSteps("t1") /\ RegistryOnly

SpecHandshakeFair ==
    /\ Init /\ [][NextHandshakeFair]_vars
    /\ WF_vars(SelectReturns("c1") /\ RegistryOnly)
    /\ SF_vars(HandshakeSteps("c1", WelcomeOutcomes) /\ RegistryOnly)
    /\ WF_vars(RenameSteps("t1") /\ RegistryOnly)
    /\ WF_vars(AddInsert("g1") /\ RegistryOnly)

\* Three users that join channels while one RenameUser call at a time runs.
NotifyLines ==
    {Msg("NICK", <<n>>, <<>>) : n \in {<<"a">>, <<"b">>}}
    \cup {Msg("USER", << <<"u">> >>, <<"R">>)}

NextNotify ==
    \/ \E c \in Conns : ConnectStart(c) /\ RegistryOnly
    \/ \E c \in Conns, m \in NotifyLines :
          /\ i[c] > handshakeMsgTolerance - 2
          /\ HandshakeMsg(c, m)
          /\ RegistryOnly
    \/ \E c \in Conns : HandshakeSteps(c, {"ok"}) /\ RegistryOnly
    \/ Add("g1", <<"A", "B">>) /\ RegistryOnly
    \/ AddInsert("g1") /\ RegistryOnly
    \/ \E u \in Users, ch \in MemberChans : Join(u, ch) /\ RegistryOnly
    \/ \E u \in Users, n \in {<<"b">>, <<"a", "b", "a">>} :
          RenameBegin("t1", u, n) /\ RegistryOnly
    \/ RenameSteps("t1") /\ RegistryOnly

SpecNotify == Init /\ [][NextNotify]_vars

\* The channel index under Channel and UnlinkChannel calls, once a user is
\* registered.
ChanLines == {Msg("NICK", << <<"a">> >>, <<>>), Msg("USER", << <<"u">> >>, <<"R">>)}

NextChan ==
    \/ ConnectStart("c1") /\ RegistryOnly
    \/ \E m \in ChanLines :
          /\ i["c1"] > handshakeMsgTolerance - 2
          /\ HandshakeMsg("c1", m)
          /\ RegistryOnly
    \/ HandshakeSteps("c1", {"ok"}) /\ RegistryOnly
    \/ \E id \in ChanIds : Channel(id) /\ ChannelsOnly
    \/ \E ch \in chans : UnlinkChannel(ch) /\ ChannelsOnly
    \/ ChannelSteps(ChanNames, BridgeInfos) /\ ChannelsOnly

SpecChan == Init /\ [][NextChan]_vars

\* The Slack bridge: sends by two goroutines, the backend's own messages, and the
\* translator.
SlackTexts == {<<>>, <<"h", "\n", "w">>}
SlackChans == {<<"C", "1">>, <<"D", "1">>}
SlackEnvs == {Env(uok, TRUE, TRUE, TRUE, TRUE) : uok \in BOOLEAN}

NextSlack ==
    \/ \E t \in Threads, ch \in {<<"c", "1">>, <<"C", "1">>}, ok \in BOOLEAN :
          MsgChannelPost(t, ch, <<"h">>, ok) /\ SlackOnly
    \/ \E t \in Threads, convOk \in BOOLEAN, ok \in BOOLEAN :
          MsgUserPost(t, Other, <<"h">>, convOk, ok) /\ SlackOnly
    \/ \E t \in Threads : MsgRecordBegin(t) /\ SlackOnly
    \/ \E t \in Threads, outcome \in RecordOutcomes :
          MsgRecordEnd(t, outcome) /\ SlackOnly
    \/ \E user \in {Me, Other}, ch \in SlackChans, text \in SlackTexts :
          BackendMessage(user, ch, text) /\ SlackOnly
    \/ \E env \in SlackEnvs : HandleSlack(env) /\ TranslatorOnly
    \/ \E env \in SlackEnvs : HandleSlackWake(env) /\ TranslatorOnly
    \/ \E env \in SlackEnvs : HandleSlackLine(env) /\ TranslatorOnly
    \/ HandleSlackSend /\ TranslatorOnly

SpecSlack == InitSession /\ [][NextSlack]_vars

\* Two goroutines sending on one channel or to one user, the translator, and a
\* Logout of the session.
NextRecord ==
    \/ \E t \in Threads, ok \in BOOLEAN :
          MsgChannelPost(t, <<"c", "1">>, <<"h">>, ok) /\ SlackOnly
    \/ \E t \in Threads, convOk \in BOOLEAN :
          MsgUserPost(t, Other, <<"h">>, convOk, TRUE) /\ SlackOnly
    \/ \E t \in Threads : MsgRecordBegin(t) /\ SlackOnly
    \/ \E t \in Threads, outcome \in RecordOutcomes :
          MsgRecordEnd(t, outcome) /\ SlackOnly
    \/ \E env \in SlackEnvs : HandleSlack(env) /\ TranslatorOnly
    \/ \E env \in SlackEnvs : HandleSlackWake(env) /\ TranslatorOnly
    \/ \E env \in SlackEnvs : HandleSlackLine(env) /\ TranslatorOnly
    \/ HandleSlackSend /\ TranslatorOnly
    \/ SlackLogoutCall /\ CallsOnly
    \/ SlackLogoutSteps /\ CallsOnly

SpecRecord == InitSession /\ [][NextRecord]_vars

\* The lines each connection sends in its handshake, in their order.
LogoutLines ==
    [c \in Conns |->
        << Msg("NICK", <<IF c = "c1" THEN <<"a">> ELSE <<"b">> >>, <<>>),
           Msg("USER", << <<"u">> >>, <<"R">>) >>]

\* A connection that registers beside a ghost, sends lines, has Handle called
\* for it, and quits when its inbound channel is closed.
LoopLines == {NilMsg, Msg("FOO", << <<"x">> >>, <<>>)}
\* The NICK lines whose handlers were started and have not called RenameUser.
NicksWaiting ==
    Cardinality({t \in Threads : hd[t].pc = "run" /\ hd[t].msg.Command = "NICK"})

\* The connections of SpecServe.
Talkers == {"c1"}
\* The goroutine the go statement of line 360 starts: one that runs nothing.
NextFree == IF Free("t1") THEN "t1" ELSE "t2"

NextServe ==
    \/ \E c \in Talkers : ConnectStart(c) /\ RegistryOnly
    \/ \E c \in Talkers :
          /\ i[c] > handshakeMsgTolerance - 2
          /\ HandshakeMsg(c, LogoutLines[c][handshakeMsgTolerance + 1 - i[c]])
          /\ RegistryOnly
    \/ \E c \in Talkers : HandshakeSteps(c, {"ok"}) /\ RegistryOnly
    \/ \E c \in Talkers : HandshakeTimeout(c) /\ RegistryOnly
    \/ Add("g1", <<"b">>) /\ RegistryOnly
    \/ AddInsert("g1") /\ RegistryOnly
    \/ \E c \in Talkers : Join(c, <<"X">>) /\ RegistryOnly
    \/ \E c \in Talkers : Handle(c) /\ LoopOnly
    \/ \E c \in Talkers, m \in LoopLines : HandleLine(c, m, NextFree) /\ LoopOnly
    \/ \E c \in Talkers :
          /\ renames + NicksWaiting < MaxRenames
          /\ HandleLine(c, Msg("NICK", << <<"b">> >>, <<>>), NextFree)
          /\ LoopOnly
    \/ \E t \in Threads : HandlerRun(t) /\ LoopOnly
    \/ \E t \in Threads : RenameSteps(t) /\ RegistryOnly
    \/ \E c \in Talkers : CloseInbound(c) /\ LoopOnly
    \/ \E c \in Talkers : HandleDefer(c) /\ CallsOnly
    \/ \E c \in Talkers : QuitSteps(c) /\ CallsOnly

SpecServe == Init /\ [][NextServe]_vars

\* Two registered connections in one channel, and calls of server.Logout and of
\* Quit made for them.
NextLogout ==
    \/ \E c \in Conns : ConnectStart(c) /\ RegistryOnly
    \/ \E c \in Conns :
          /\ i[c] > handshakeMsgTolerance - 2
          /\ HandshakeMsg(c, LogoutLines[c][handshakeMsgTolerance + 1 - i[c]])
          /\ RegistryOnly
    \/ \E c \in Conns : HandshakeSteps(c, {"ok"}) /\ RegistryOnly
    \/ \E c \in Conns : Join(c, <<"X">>) /\ RegistryOnly
    \/ Channel(<<"X">>) /\ ChannelsOnly
    \/ ChannelSteps({<<"#", "n">>}, {"public"}) /\ ChannelsOnly
    \/ \E c \in Conns : Logout(c) /\ CallsOnly
    \/ LogoutSteps /\ CallsOnly
    \/ \E c \in Conns :
          /\ conn[c] = "serving" /\ quits[c] = 0
          /\ Quit(c) /\ UNCHANGED ended
          /\ CallsOnly
    \/ \E c \in Conns : QuitSteps(c) /\ CallsOnly

SpecLogout == Init /\ [][NextLogout]_vars

\* One registered connection that sends NICK lines in a fixed order, each
\* dispatched to a goroutine of its own.
LineNicks == << <<"b">>, <<"c">>, <<"d">>, <<"e">> >>
\* The nick of the next NICK line of the connection.
NextNick == LineNicks[renames + NicksWaiting + 1]

NextDispatch ==
    \/ ConnectStart("c1") /\ RegistryOnly
    \/ \E m \in ChanLines :
          /\ i["c1"] > handshakeMsgTolerance - 2
          /\ HandshakeMsg("c1", m)
          /\ RegistryOnly
    \/ HandshakeSteps("c1", {"ok"}) /\ RegistryOnly
    \/ Handle("c1") /\ LoopOnly
    \/ \E t \in Threads :
          /\ renames + NicksWaiting < MaxRenames
          /\ HandleLine("c1", Msg("NICK", <<NextNick>>, <<>>), t)
          /\ LoopOnly
    \/ \E m \in LoopLines, t \in Threads : HandleLine("c1", m, t) /\ LoopOnly
    \/ \E t \in Threads : HandlerRun(t) /\ LoopOnly
    \/ \E t \in Threads : RenameSteps(t) /\ RegistryOnly
    \/ CloseInbound("c1") /\ LoopOnly
    \/ HandleDefer("c1") /\ CallsOnly
    \/ QuitSteps("c1") /\ CallsOnly
    \/ Close /\ CallsOnly
    \/ CloseSteps /\ CallsOnly

SpecDispatch == Init /\ [][NextDispatch]_vars

\* The nicks of the two users BatchAdd is called with under SpecCount.
BatchNicks == {<< <<"a">>, <<"A">> >>, << <<"A", "B">>, <<"a">> >>}

\* The counts of the registry read while a connection registers, the bridge adds
\* its users, one RenameUser call at a time runs and a channel is looked up.
NextCount ==
    \/ ConnectStart("c1") /\ RegistryOnly
    \/ \E m \in ChanLines :
          /\ i["c1"] > handshakeMsgTolerance - 2
          /\ HandshakeMsg("c1", m)
          /\ RegistryOnly
    \/ HandshakeSteps("c1", {"ok"}) /\ RegistryOnly
    \/ RenameBegin("t1", "c1", <<"c">>) /\ RegistryOnly
    \/ RenameSteps("t1") /\ RegistryOnly
    \/ \E ns \in BatchNicks : BatchAdd(<<"g1", "g2">>, ns) /\ CallsOnly
    \/ BatchSteps /\ CallsOnly
    \/ Channel(<<"X">>) /\ ChannelsOnly
    \/ ChannelSteps({<<"#", "n">>}, {"public"}) /\ ChannelsOnly
    \/ LenUsers /\ ReadOnly
    \/ UserCount /\ ReadOnly
    \/ ChannelCount /\ ReadOnly

SpecCount == Init /\ [][NextCount]_vars

\* The translator on messages of the local account and of another user, in a
\* direct conversation and in a channel, under every answer of the backend to
\* the lookups of the members, beside a Logout of the session.
DirectEnvs ==
    {Env(TRUE, TRUE, cok, mok, meok) :
        cok \in BOOLEAN, mok \in BOOLEAN, meok \in BOOLEAN}

NextDirect ==
    \/ \E user \in {Me, Other}, ch \in SlackChans, text \in SlackTexts :
          BackendEvent(MessageEvent(user, ch, TsStr(clock + 1), text)) /\ SlackOnly
    \/ \E env \in DirectEnvs : HandleSlack(env) /\ TranslatorOnly
    \/ \E env \in DirectEnvs : HandleSlackWake(env) /\ TranslatorOnly
    \/ \E env \in DirectEnvs : HandleSlackLine(env) /\ TranslatorOnly
    \/ HandleSlackSend /\ TranslatorOnly
    \/ SlackLogoutCall /\ CallsOnly
    \/ SlackLogoutSteps /\ CallsOnly

SpecDirect == InitSession /\ [][NextDirect]_vars

\* The translator on every kind of message, one event at a time, beside a
\* Logout of the session.
RECURSIVE Rows(_)
Rows(n) == IF n = 0 THEN <<>>
           ELSE IF n = 1 THEN <<"r">>
           ELSE <<"r", "\n">> \o Rows(n - 1)

OldTs == <<"0", "0">>
C1 == <<"C", "1">>

MessageKinds(ts) ==
    LET plain == MessageEvent(Other, C1, ts, <<"h">>)
        empty == MessageEvent(Other, C1, ts, <<>>)
    IN  {plain,
         MessageEvent(Other, <<"D", "1">>, ts, <<"h", "\n", "w">>),
         [empty EXCEPT !.SubType = MessageChanged],
         [plain EXCEPT !.SubType = MessageChanged,
                       !.SubMessage = [nil |-> FALSE, User |-> Other,
                                       Text |-> <<"e">>, Timestamp |-> OldTs]],
         [plain EXCEPT !.SubType = BotMessage, !.BotID = <<"B", "1">>],
         [plain EXCEPT !.SubType = BotMessage, !.BotID = <<"B", "1">>,
                       !.Username = <<"b", "t">>],
         [empty EXCEPT !.SubType = MessageDeleted, !.DeletedTimestamp = OldTs],
         [plain EXCEPT !.SubType = <<"channel_join">>],
         [plain EXCEPT !.ThreadTimestamp = OldTs, !.Text = <<"h", "\n", "w">>],
         [plain EXCEPT !.ThreadTimestamp = OldTs, !.Text = <<"h", "\n", "w">>,
                       !.SubType = MessageChanged,
                       !.SubMessage = [nil |-> FALSE, User |-> Other,
                                       Text |-> <<"e", "\n", "f">>,
                                       Timestamp |-> OldTs]],
         [empty EXCEPT !.ThreadTimestamp = OldTs,
                       !.Attachments = << [Pretext |-> <<"p", "\n", "q">>,
                                           Text |-> <<"r", "\n", "r">>] >>,
                       !.Files = << [Mode |-> <<"m">>, Name |-> <<"f">>,
                                     Title |-> <<"t">>, Filetype |-> <<"x">>,
                                     URLPrivate |-> <<"u">>] >>],
         [empty EXCEPT !.Files = << [Mode |-> <<"m">>, Name |-> <<"f">>,
                                     Title |-> <<"t">>, Filetype |-> <<"x">>,
                                     URLPrivate |-> <<"u">>] >>]}
    \cup {[empty EXCEPT !.Attachments = << [Pretext |-> p, Text |-> Rows(n)] >>] :
             n \in 0..MaxRows, p \in {<<>>, <<"p">>}}

\* Reactions, stars and pins of another user and of the local account, in a
\* channel and in a direct conversation.
NoticeKinds ==
    {[Type |-> t, User |-> u, Reaction |-> <<"x">>,
      Item |-> [Channel |-> ch, Timestamp |-> OldTs]] :
        t \in {"reaction_added", "reaction_removed"}, u \in {Me, Other},
        ch \in SlackChans}
    \cup {[Type |-> t, User |-> u, Item |-> [Channel |-> ch, Message |-> msg]] :
             t \in {"star_added", "star_removed", "pin_added", "pin_removed"},
             u \in {Me, Other}, ch \in SlackChans,
             msg \in {Nil, [nil |-> FALSE, Text |-> <<"h">>, Timestamp |-> OldTs]}}

MemberKinds ==
    {[Type |-> "member_left_channel", User |-> Other, Channel |-> C1]}
    \cup {[Type |-> "member_joined_channel", User |-> Other, Channel |-> C1,
           Inviter |-> inv] : inv \in {<<>>, Me}}

EventEnvs == {Env(uok, bok, TRUE, TRUE, TRUE) : uok \in BOOLEAN, bok \in BOOLEAN}

NextEvents ==
    \/ \E ev \in MessageKinds(TsStr(clock + 1)) : BackendEvent(ev) /\ SlackOnly
    \/ BackendEvent([Type |-> "disconnected"]) /\ SlackOnly
    \/ \E env \in EventEnvs : HandleSlack(env) /\ TranslatorOnly
    \/ \E env \in EventEnvs : HandleSlackLine(env) /\ TranslatorOnly
    \/ HandleSlackSend /\ TranslatorOnly
    \/ SlackLogoutCall /\ CallsOnly
    \/ SlackLogoutSteps /\ CallsOnly

SpecEvents == InitSession /\ [][NextEvents]_vars

\* The translator on reactions, stars and pins, one event at a time, under
\* every answer of the backend to the lookups of the acting user and of the
\* members of a direct conversation, beside a Logout of the session.
NoticeEnvs == {Env(uok, TRUE, cok, TRUE, TRUE) : uok \in BOOLEAN, cok \in BOOLEAN}

NextNotices ==
    \/ \E ev \in NoticeKinds : BackendEvent(ev) /\ SlackOnly
    \/ \E env \in NoticeEnvs : HandleSlack(env) /\ TranslatorOnly
    \/ HandleSlackSend /\ TranslatorOnly
    \/ SlackLogoutCall /\ CallsOnly
    \/ SlackLogoutSteps /\ CallsOnly

SpecNotices == InitSession /\ [][NextNotices]_vars

\* The translator on the events that make it look users up in the cache, beside
\* GetUser calls of another goroutine and a Logout of the session.
LookupKinds ==
    MemberKinds \cup {[MessageEvent(Other, C1, OldTs, <<"h">>)
                          EXCEPT !.SubType = <<"channel_join">>]}
LookupEnvs == {Env(uok, TRUE, TRUE, mok, TRUE) : uok \in BOOLEAN, mok \in BOOLEAN}

NextLookup ==
    \/ \E ev \in LookupKinds : BackendEvent(ev) /\ SlackOnly
    \/ \E env \in LookupEnvs : HandleSlack(env) /\ TranslatorOnly
    \/ HandleSlackGetUser /\ TranslatorOnly
    \/ \E ok \in BOOLEAN : HandleSlackAsk(ok) /\ TranslatorOnly
    \/ HandleSlackStore /\ TranslatorOnly
    \/ HandleSlackSend /\ TranslatorOnly
    \/ \E id \in {Me, Other} : GetUserCall(id) /\ TranslatorOnly
    \/ GetUserLookup /\ TranslatorOnly
    \/ \E ok \in BOOLEAN : GetUserAsk(ok) /\ TranslatorOnly
    \/ GetUserStore /\ TranslatorOnly
    \/ SlackLogoutCall /\ CallsOnly
    \/ SlackLogoutSteps /\ CallsOnly

SpecLookup == InitSession /\ [][NextLookup]_vars

\* New and the login policy of the Slack session, beside the translator it
\* starts.
\* The configurations and the teams and accounts of SpecLogin.
Restricts == {<<>>, << <<"t">> >>, << <<"s">>, <<"t">> >>}
DenyLists == {<<>>, << <<"b">> >>, << <<"a">>, <<"b">> >>}
Infos == {[nil |-> FALSE, Domain |-> d, Name |-> n] :
             d \in {<<"t">>, <<"T">>}, n \in {<<"b">>, <<"c">>}}

\* The event the backend sends once the connection is up: a user left a channel.
LeftEvent == [Type |-> "member_left_channel", User |-> Other, Channel |-> C1]

NextLogin ==
    \/ \E r \in Restricts, d \in DenyLists, tokenOk \in BOOLEAN :
          LoginToSlack([restrict |-> r, DenyUsers |-> d], tokenOk) /\ LoginOnly
    \/ \E info \in Infos : ManageConnection(info) /\ LoginOnly
    \/ GetInfo /\ LoginOnly
    \/ Sleep /\ LoginOnly
    \/ Allowed /\ LoginOnly
    \/ NewSteps /\ NewOnly
    \/ BackendEvent(LeftEvent) /\ SlackOnly
    \/ \E env \in SlackEnvs : HandleSlack(env) /\ TranslatorOnly
    \/ HandleSlackGetUser /\ TranslatorOnly
    \/ \E ok \in BOOLEAN : HandleSlackAsk(ok) /\ TranslatorOnly
    \/ HandleSlackStore /\ TranslatorOnly
    \/ HandleSlackSend /\ TranslatorOnly
    \/ SlackLogoutCall /\ CallsOnly
    \/ SlackLogoutSteps /\ CallsOnly

SpecLogin == Init /\ [][NextLogin]_vars

\* One connection that logs in to Slack with its PASS line, joins a channel and
\* quits when its inbound channel is closed.
QuitLines ==
    {Msg("PASS", << <<"p">> >>, <<>>), Msg("NICK", << <<"a">> >>, <<>>),
     Msg("USER", << <<"u">> >>, <<"R">>)}

NextQuit ==
    \/ ConnectStart("c1") /\ RegistryOnly
    \/ \E m \in QuitLines :
          /\ i["c1"] > handshakeMsgTolerance - 3
          /\ HandshakeMsg("c1", m)
          /\ RegistryOnly
    \/ HandshakeSteps("c1", {"ok"}) /\ RegistryOnly
    \/ /\ logins["c1"].service = "slack"
       /\ LoginToSlack([restrict |-> <<>>, DenyUsers |-> <<>>], TRUE)
       /\ LoginOnly
    \/ ManageConnection([nil |-> FALSE, Domain |-> <<"t">>, Name |-> <<"b">>])
          /\ LoginOnly
    \/ GetInfo /\ LoginOnly
    \/ Sleep /\ LoginOnly
    \/ Allowed /\ LoginOnly
    \/ NewSteps /\ NewOnly
    \/ Join("c1", <<"X">>) /\ RegistryOnly
    \/ Channel(<<"X">>) /\ ChannelsOnly
    \/ ChannelSteps({<<"#", "n">>}, {"public"}) /\ ChannelsOnly
    \/ CloseInbound("c1") /\ LoopOnly
    \/ HandleDefer("c1") /\ CallsOnly
    \/ QuitSteps("c1") /\ CallsOnly
    \/ SlackLogoutSteps /\ CallsOnly

SpecQuit == Init /\ [][NextQuit]_vars

\* ------------------------------------------------------------- claims
\* The first MaxNickLen characters of a nick.
FirstN(s) == IF Len(s) > MaxNickLen THEN SubSeq(s, 1, MaxNickLen) ELSE s

InUseReply(nick) == Reply(ServerPrefix, "ERR_NICKNAMEINUSE", <<nick>>)

\* A line that carries at least one argument once a NICK's or PASS's trailing is
\* counted as one.
HasArg(m) ==
    /\ m # NilMsg
    /\ \/ Len(m.Params) >= 1
       \/ m.Command \in {"NICK", "PASS"} /\ m.Trailing # <<>>

FirstArg(m) == IF Len(m.Params) >= 1 THEN m.Params[1] ELSE m.Trailing

\* C1: in every reachable state, under any interleaving of Connect and RenameUser
\* calls of different connections, no two distinct users of the registry have
\* nicks that are equal after lower-casing.
C1_NickUnique ==
    \A k1, k2 \in DOMAIN users :
        users[k1] # users[k2] => ToLower(Nick[users[k1]]) # ToLower(Nick[users[k2]])

\* Two connections are registered, one holds "a", and the other's rename to "A"
\* was just rejected.
C1_Witness ==
    \E u1, u2 \in Conns :
        /\ u1 # u2 /\ Registered(u1) /\ Registered(u2)
        /\ Nick[u1] = <<"a">>
        /\ conn[u2] = "serving"
        /\ encoded[u2] = << InUseReply(<<"A">>) >>

\* C8: a RenameUser(u, n) whose n, cut to MaxNickLen and lower-cased, is a key of
\* the registry when the lock is taken releases the lock with nothing changed
\* and nothing sent; it then sends ERR_NICKNAMEINUSE to u and no NICK message
\* to anyone, returns false, and leaves every nick and the registry as they are.
C8_RenameInUse ==
    [][\A t \in Threads :
          /\ (/\ rn[t].pc = "lock"
              /\ rn'[t] # rn[t]
              /\ ToLower(FirstN(rn[t].arg)) \in DOMAIN users)
             => /\ rn'[t].pc = "inuse" /\ lock' = None
                /\ \A o \in Users : encoded'[o] = <<>>
                /\ Nick' = Nick
                /\ users' = users
          /\ (rn[t].pc = "inuse" /\ rn'[t] # rn[t])
             => /\ rn'[t].pc = "idle" /\ rn'[t].res = "false"
                /\ encoded'[rn[t].u] = << InUseReply(FirstN(rn[t].arg)) >>
                /\ \A o \in Users \ {rn[t].u} : encoded'[o] = <<>>
                /\ Nick' = Nick
                /\ users' = users
          /\ rn'[t].pc = "inuse" => rn[t].pc \in {"lock", "inuse"}]_vars

\* A rename to "ABb", cut to "AB", was rejected because "ab" is registered.
C8_Witness ==
    \E t \in Threads :
        /\ rn[t].pc = "idle" /\ rn[t].res = "false"
        /\ rn[t].arg = <<"A", "B", "b">>
        /\ encoded[rn[t].u] = << InUseReply(<<"A", "B">>) >>
        /\ <<"a", "b">> \in DOMAIN users
        /\ users[<<"a", "b">>] # rn[t].u

\* C9: RenameUser re-keys the registry atomically.  The state in which u is in
\* the registry under no key exists only while the renaming goroutine holds the
\* write lock; whenever the lock is free every registered user is under exactly
\* the key of its nick and every connection being served is registered; and when
\* the rename releases the lock u is under exactly one key, the lower-cased new
\* nick.
C9_Observable ==
    /\ \A t \in Threads : rn[t].pc = "rekey" => lock = t
    /\ lock = None =>
          /\ \A k \in DOMAIN users : ToLower(Nick[users[k]]) = k
          /\ \A c \in Conns : handling[c] => Cardinality(KeysOf(c)) = 1

C9_AtomicRekey ==
    /\ []C9_Observable
    /\ [][\A t \in Threads :
            (rn[t].pc = "rekey" /\ rn'[t].pc # "rekey")
            => /\ lock' = None
               /\ KeysOf(rn[t].u)' = {ToLower(FirstN(rn[t].arg))}]_vars

\* A rename is between deleting the old key and inserting the new one, u is in
\* the registry under no key, and another rename waits for the lock.
C9_Witness ==
    \E t1, t2 \in Threads :
        /\ rn[t1].pc = "rekey" /\ ~Registered(rn[t1].u)
        /\ rn[t2].pc = "lock"

BurstCommands ==
    <<"RPL_WELCOME", "RPL_YOURHOST", "RPL_CREATED", "RPL_MYINFO", "RPL_LUSERCLIENT">>

\* The handshake of c ended in failure: closed, no command loop, not registered.
Failed(c) ==
    /\ ret[c] = "ErrHandshakeFailed"
    /\ conn[c] = "closed"
    /\ ~handling[c]
    /\ ~Registered(c)

\* The positions of handshake before s.add has inserted the user.
BeforeAdd == {"new", "handshake", "add", "adding", "inuse"}

\* C4: a connection whose handshake consumed 20 lines, or timed out, or ended
\* without both a nick and a username, has Connect return ErrHandshakeFailed, is
\* closed, gets no command loop and is not in the registry; the handshake fails
\* only from its select, where the connection is not yet in the registry, it
\* never comes back to the select once s.add has inserted it, and Connect's
\* result never changes afterwards, so the connection never was in the registry.
C4_FailedState ==
    \A c \in Conns :
        /\ i[c] = 0 /\ conn[c] # "new" => Failed(c)
        /\ ret[c] = "ErrHandshakeFailed" => Failed(c)
        /\ conn[c] \in BeforeAdd => ~Registered(c)
        /\ (Nick[c] = <<>> \/ User[c] = <<>>) =>
              /\ ~Registered(c) /\ ~handling[c]
              /\ conn[c] = "closed" => Failed(c)

C4_HandshakeFails ==
    /\ []C4_FailedState
    /\ [][\A c \in Conns :
            /\ (conn[c] = "handshake" /\ conn'[c] = "closed" /\ i'[c] = i[c])
                  => Failed(c)'
            /\ (ret[c] = "pending" /\ ret'[c] = "ErrHandshakeFailed")
                  => conn[c] = "handshake"
            /\ conn[c] \notin BeforeAdd => conn'[c] \notin BeforeAdd
            /\ ret[c] # "pending" => ret'[c] = ret[c]]_vars

\* The 20th line was consumed with only a nick supplied: the handshake failed.
C4_Witness ==
    /\ i["c1"] = 0
    /\ Nick["c1"] # <<>> /\ User["c1"] = <<>>
    /\ Failed("c1")

UserLine == Msg("USER", << <<"u">> >>, <<"R">>)

\* The commands of what a successful welcome writes: the burst, then the MOTD.
WelcomeCommands == BurstCommands \o <<"MOTD">>

\* C5: a connection that has sent NICK n and now sends USER, with budget left,
\* goes on to s.add with n cut to MaxNickLen; s.add takes the lock, and when,
\* with the lock held, the lower-cased nick is not a key of the registry it puts
\* the connection there under that key and no other, the only user with that
\* nick, and releases the lock; then s.u is set, the welcome burst and
\* the MOTD are written to it, addressed to its nick, no login is made when no
\* PASS was received, and unless a write of welcome fails the handshake returns
\* nil and the command loop starts.
C5_FreshRegistration ==
    [][\A c \in Conns :
          /\ (/\ Nick[c] # <<>> /\ User[c] = <<>> /\ i[c] > 1
              /\ HandshakeMsg(c, UserLine))
             => conn'[c] = "add" /\ Nick'[c] = FirstN(Nick[c])
          /\ (conn[c] = "add" /\ conn'[c] # "add")
             => conn'[c] = "adding" /\ lock = None /\ lock' = c /\ users' = users
          /\ (conn[c] = "adding" /\ conn'[c] # "adding"
                 /\ ToLower(Nick[c]) \notin DOMAIN users)
             => /\ conn'[c] = "added" /\ lock' = None
                /\ KeysOf(c)' = {ToLower(Nick[c])}
                /\ Cardinality({u \in Users : Registered(u)' /\
                                   ToLower(Nick'[u]) = ToLower(Nick[c])}) = 1
          /\ (conn[c] = "added" /\ conn'[c] # "added")
             => conn'[c] = "welcome" /\ su' = c /\ users' = users
          /\ (conn[c] = "welcome" /\ conn'[c] # "welcome")
             => \/ /\ [k \in 1..Len(encoded'[c]) |-> encoded'[c][k].Command]
                         = WelcomeCommands
                   /\ \A k \in 1..Len(encoded'[c]) :
                         encoded'[c][k].Params = <<Nick[c]>>
                   /\ conn'[c] = IF Pass[c] = <<>> THEN "return" ELSE "login"
                \/ conn'[c] = "returnErr"
          /\ (conn[c] = "return" /\ conn'[c] # "return")
             => ret'[c] = "nil" /\ conn'[c] = "serving" /\ handling'[c]
          /\ (conn[c] = "returnErr" /\ conn'[c] # "returnErr")
             => ret'[c] = "EncodeError" /\ conn'[c] = "closed" /\ ~handling'[c]
          /\ Pass[c] = <<>> => logins'[c] = NoLogin]_vars

\* NICK a, USER u: registered under "a", handshake returned nil, no login.
C5_Witness ==
    /\ i["c1"] = handshakeMsgTolerance - 2
    /\ conn["c1"] = "serving" /\ ret["c1"] = "nil" /\ handling["c1"]
    /\ KeysOf("c1") = {<<"a">>}
    /\ Pass["c1"] = <<>> /\ logins["c1"] = NoLogin

\* C6: when s.add, the lock held, finds the lower-cased nick a key of the
\* registry it does not add the connection and releases the lock; ERR_NICKNAMEINUSE is then sent to it and the handshake
\* is back at its select, not failed and not registered; and a NICK line
\* processed there while the username is set and budget is left goes on to
\* s.add with the new nick, which registers the connection when that is free.
C6_CollisionRecoverable ==
    [][\A c \in Conns :
          /\ (conn[c] = "adding" /\ conn'[c] # "adding"
                 /\ ToLower(Nick[c]) \in DOMAIN users)
             => users' = users /\ conn'[c] = "inuse" /\ lock' = None
          /\ (conn[c] = "inuse" /\ conn'[c] # "inuse")
             => /\ encoded'[c] = << InUseReply(Nick[c]) >>
                /\ users' = users /\ ~Registered(c)'
                /\ conn'[c] = "handshake" /\ ret'[c] = "pending"
          /\ \A m \in HandshakeLines :
               (/\ HasArg(m) /\ i[c] > 1 /\ m.Command = "NICK" /\ User[c] # <<>>
                /\ HandshakeMsg(c, m))
               => conn'[c] = "add" /\ Nick'[c] = FirstN(FirstArg(m))
          /\ (conn[c] = "adding" /\ conn'[c] # "adding"
                 /\ ToLower(Nick[c]) \notin DOMAIN users)
             => users' = MapPut(users, ToLower(Nick[c]), c)]_vars

\* The connection asked for "a", which the ghost holds: it was told so, is not
\* registered and still waits for lines.
C6_Witness ==
    /\ conn["c1"] = "handshake" /\ ret["c1"] = "pending" /\ i["c1"] > 1
    /\ Nick["c1"] = <<"a">> /\ User["c1"] # <<>>
    /\ ~Registered("c1")
    /\ <<"a">> \in DOMAIN users /\ users[<<"a">>] = "g1"
    /\ encoded["c1"] = << InUseReply(<<"a">>) >>

NotRegisteredReply == Reply(ServerPrefix, "ERR_NOTREGISTERED", << <<"*">> >>)

\* C7 as stated: every JOIN line received during the handshake makes the server
\* send ERR_NOTREGISTERED, leaves nick, username and credentials unchanged, and
\* leaves the registry unchanged: the line's iteration does not go on to s.add.
C7_AsStated ==
    [][\A c \in Conns : \A m \in HandshakeLines :
          (m.Command = "JOIN" /\ HandshakeMsg(c, m))
          => /\ Len(encoded'[c]) >= 1 /\ encoded'[c][1] = NotRegisteredReply
             /\ Nick' = Nick /\ User' = User /\ Pass' = Pass
             /\ users' = users /\ conn'[c] # "add"]_vars

\* C7 as amended: a JOIN line with at least one parameter, received while budget
\* is left, makes the server send ERR_NOTREGISTERED and leaves nick, username
\* and credentials unchanged; the registry is left alone when the nick or the
\* username is still empty, and otherwise the line's iteration goes on to s.add
\* as any processed line's does, which registers the connection when the nick
\* is free.
C7_JoinBeforeRegistration ==
    [][\A c \in Conns :
          /\ \A m \in HandshakeLines :
               (m.Command = "JOIN" /\ Len(m.Params) >= 1 /\ i[c] > 1
                  /\ HandshakeMsg(c, m))
               => /\ encoded'[c] = << NotRegisteredReply >>
                  /\ Nick' = Nick /\ User' = User /\ Pass' = Pass
                  /\ users' = users
                  /\ conn'[c] = IF Nick[c] = <<>> \/ User[c] = <<>>
                                THEN "handshake" ELSE "add"
          /\ (conn[c] = "add" /\ conn'[c] # "add") => conn'[c] = "adding"
          /\ (conn[c] = "adding" /\ conn'[c] # "adding")
             => users' = IF ToLower(Nick[c]) \in DOMAIN users THEN users
                         ELSE MapPut(users, ToLower(Nick[c]), c)]_vars

\* A JOIN was answered with ERR_NOTREGISTERED; the connection, with a nick and
\* credentials but no username, still waits.
C7_Witness ==
    /\ conn["c1"] = "handshake"
    /\ encoded["c1"] = << NotRegisteredReply >>
    /\ Nick["c1"] # <<>> /\ User["c1"] = <<>> /\ Pass["c1"] # <<>>
    /\ ~Registered("c1")

\* The users other than u that are members of a channel u is a member of.
Sharing(u) ==
    {o \in Users \ {u} : \E ch \in MemberChans :
                            <<u, ch>> \in member /\ <<o, ch>> \in member}

\* C10: a successful RenameUser(u, n) sends one NICK message, carrying the prefix
\* u had before the rename (its old nick and username) and the new nick, to u and
\* to every other user that shares a channel with u, and to nobody else.
C10_NickBroadcast ==
    [][\A t \in Threads :
          /\ (rn[t].pc = "lock" /\ rn'[t].pc = "rekey")
                => rn'[t].oldPrefix = [Name |-> Nick[rn[t].u], User |-> User[rn[t].u]]
          /\ (rn[t].pc = "rekey" /\ rn'[t] # rn[t])
                => /\ rn'[t].pc = "notify"
                   /\ rn'[t].oldPrefix = rn[t].oldPrefix
                   /\ Nick'[rn[t].u] = FirstN(rn[t].arg)
          /\ (rn[t].pc = "notify" /\ rn'[t] # rn[t])
                => /\ rn'[t].pc = "idle" /\ rn'[t].res = "true"
                   /\ \A o \in Users :
                         encoded'[o] =
                            IF o = rn[t].u \/ o \in Sharing(rn[t].u)
                            THEN << [Prefix |-> rn[t].oldPrefix, Command |-> "NICK",
                                     Params |-> <<FirstN(rn[t].arg)>>] >>
                            ELSE <<>>]_vars

\* c1 went from "a" to "ab" while sharing both channels with c2 and none with
\* g1: c1 and c2 each got the one NICK message, g1 got none.
C10_Witness ==
    LET nick == [Prefix |-> [Name |-> <<"a">>, User |-> <<"u">>], Command |-> "NICK",
                 Params |-> << <<"a", "b">> >>]
    IN  /\ rn["t1"].pc = "idle" /\ rn["t1"].res = "true" /\ rn["t1"].u = "c1"
        /\ {<<"c1", ch>> : ch \in MemberChans} \subseteq member
        /\ {<<"c2", ch>> : ch \in MemberChans} \subseteq member
        /\ Registered("g1") /\ Sharing("g1") = {}
        /\ encoded["c1"] = <<nick>> /\ encoded["c2"] = <<nick>> /\ encoded["g1"] = <<>>

\* C2 as stated: whenever no Channel or UnlinkChannel call is under way, for
\* every channel the index holds, the entries under its id and under its
\* display name are that same channel; and right after UnlinkChannel(ch) no key
\* of the index holds ch.
C2_AsStated ==
    cc.pc = "idle" =>
    /\ \A k \in DOMAIN channels :
          LET ch == channels[k]
          IN  /\ ch.id \in DOMAIN channels /\ channels[ch.id] = ch
              /\ ch.name \in DOMAIN channels /\ channels[ch.name] = ch
    /\ chLast.op = "UnlinkChannel" =>
          \A k \in DOMAIN channels : channels[k] # chLast.arg

\* The number of lines of a text: one more than its line breaks.
Lines(text) == 1 + Cardinality({k \in 1..Len(text) : text[k] = "\n"})

\* A step that ends the handling of the backend event at the head of the stream.
EventHandled == inq # <<>> /\ Len(inq') = Len(inq) - 1

\* A step of the translator's goroutine that the process outlives.
TranslatorStep ==
    alive' /\ (tr' # tr \/ emitted' # emitted \/ Len(inq') < Len(inq))

\* A step in which the translator compares the event at the head of the stream
\* with what is recorded: its first step on the event, or the one after the wait.
Compared == TranslatorStep /\ tr \in {"idle", "sleep"} /\ tr' # "sleep"

\* C3: when the translator compares a message of the local account's own
\* identity on channel C with id M, and the id recorded as sent last on C is M,
\* the handling ends there and nothing is sent to the outbound event stream;
\* when the recorded id differs from M, the message has text and its sender was
\* found, the lines of the text are sent one by one, each built and then sent
\* as it was built, for C and from the local account, and the handling ends
\* with the send of the last of them.
C3_EchoSuppressed ==
    [][(TranslatorStep /\ inq # <<>> /\ Head(inq).User = Me) =>
        LET ev == Head(inq)
            rec == MapGet(msgLast, ev.Channel)
        IN  /\ (Compared /\ rec = ev.Timestamp) =>
                  EventHandled /\ emitted' = <<>> /\ trLog' = None
            /\ (Compared /\ rec # ev.Timestamp /\ ev.Text # <<>> /\ trLog' = None) =>
                  tr' = "lines" /\ emitted' = <<>> /\ inq' = inq
            /\ tr = "lines" =>
                  /\ tr' = "send" /\ emitted' = emitted /\ inq' = inq
                  /\ pending'.ChannelID = ev.Channel
                  /\ pending'.Sender.User = Me
            /\ tr = "send" =>
                  LET k == Len(emitted')
                  IN  /\ k = Len(emitted) + 1
                      /\ emitted'[k] = pending
                      /\ emitted'[k].ChannelID = ev.Channel
                      /\ emitted'[k].Sender.User = Me
                      /\ emitted'[k].Type = IF ev.Channel[1] = "D"
                                            THEN "direct_message"
                                            ELSE "channel_message"
                      /\ EventHandled <=> k = Lines(ev.Text)]_vars

\* An echo was suppressed: the event handled latest is the local account's, the
\* send path recorded its id for its channel, a call returned that id, and
\* nothing was emitted.
C3_Witness ==
    /\ lastEv.Type = "message"
    /\ lastEv.User = Me
    /\ MapGet(msgLast, lastEv.Channel) = lastEv.Timestamp
    /\ \E t \in Threads : snd[t].res = lastEv.Timestamp
    /\ emitted = <<>>
    /\ trLog = None
    /\ tr = "idle"

\* C11 as stated, for a call made while the bridge the server asks is the Slack
\* session a login has made: a Channel(id) call that has taken the lock and found id no
\* key of the index goes on to construct the channel and to enter it; the
\* process is never ended inside the call, the lock held and nothing entered.
C11_AsStated ==
    (cc.pc = "lookup" /\ su # None /\ IsSlackBridge(su)) => alive

\* C12 as stated: once Quit(u) has returned u is a member of no channel, the
\* bridge's Logout was called, and u is absent from the registry.  (That the
\* channels u's departure emptied are unlinked asks for more still.)
C12_AsStated ==
    \A c \in Conns : QuitReturned(c) =>
        /\ \A p \in member : p[1] # c
        /\ logouts[c] >= 1
        /\ ~Registered(c)

\* C13 as stated: Quit is invoked at most once for a connection, only for one
\* whose handshake succeeded and only after its inbound channel was closed.
C13_AsStated ==
    /\ [](\A c \in Conns : quits[c] <= 1)
    /\ [][\A c \in Conns : quits'[c] # quits[c] =>
             /\ inbound[c] = "closed"
             /\ ret[c] = "nil"
             /\ quits'[c] = quits[c] + 1]_vars

\* The handler goroutine t started for a line returns in this step.
HandlerReturns(t) == hd[t].pc = "run" /\ hd'[t].pc = "idle"

C15_AsStated == tr # "crashed"

\* C16 as stated: handling a reaction-added or reaction-removed event whose
\* message timestamp is no id the bridge has recorded sends nothing to the
\* outbound stream and leaves the consumer running.
C16_AsStated ==
    [][(EventHandled /\ Head(inq).Type \in {"reaction_added", "reaction_removed"}
        /\ \A k \in DOMAIN msgLast : msgLast[k] # Head(inq).Item.Timestamp) =>
          emitted' = <<>> /\ tr' = "idle"]_vars

\* The marker line of a truncated attachment body, as the events carry it.
MarkerText == CleanupMessage(<<">", " ", ".", ".", ".">>)

\* C17 as stated, without naming the cap: a message that is one attachment body
\* of n lines is rendered as quoted body lines, followed by one marker line if
\* and only if fewer than n body lines were rendered; the marker is never
\* anywhere but last.
C17_AsStated ==
    [][(EventHandled /\ Head(inq).Type = "message"
        /\ Len(Head(inq).Attachments) = 1
        /\ Head(inq).Attachments[1].Pretext = <<>>
        /\ trLog' = None /\ tr' = "idle") =>
          LET n == IF Head(inq).Attachments[1].Text = <<>> THEN 0
                   ELSE Lines(Head(inq).Attachments[1].Text)
              marked == {k \in 1..Len(emitted') : emitted'[k].Text = MarkerText}
              rendered == Len(emitted') - Cardinality(marked)
          IN  /\ marked \subseteq {Len(emitted')}
              /\ rendered <= n
              /\ (marked # {}) <=> (rendered < n)]_vars

\* The arguments of a PASS line: its parameters, then its trailing if it has one.
Credentials(m) == IF m.Trailing # <<>> THEN Append(m.Params, m.Trailing) ELSE m.Params

\* The PASS lines among the lines a client sends.
PassLines == {m \in HandshakeLines : m # NilMsg /\ m.Command = "PASS"}

\* C18 as stated: a handshake that returned nil has made a login if and only if
\* a PASS line was received during it.
C18_AsStated ==
    \A c \in Conns :
        (ret[c] = "nil" /\ conn[c] = "serving") => (logins[c] # NoLogin <=> gotPass[c])

\* C18 as amended: a PASS line that carries at least one argument and is
\* processed buffers its arguments, and no other line changes what is buffered,
\* a PASS line without an argument least of all; after s.add has registered the
\* connection, welcome goes on to the login if and only if its writes went
\* through and arguments are buffered; the login is made with the buffered
\* arguments, with service slack when exactly one is buffered and mattermost
\* otherwise, and for a ghost user whose nick, user name and real name are the
\* service and whose host is "service"; a login is made on no other step, so
\* at most once per connection and only after a PASS line, and a handshake that
\* returns nil has made one exactly when arguments are buffered.
C18_LoginAfterPass ==
    [][\A c \in Conns :
          /\ \A m \in PassLines :
                HandshakeMsg(c, m)
                => Pass'[c] = IF i[c] > 1 /\ Credentials(m) # <<>>
                              THEN Credentials(m) ELSE Pass[c]
          /\ Pass'[c] # Pass[c] => \E m \in PassLines : HandshakeMsg(c, m)
          /\ (conn[c] = "welcome" /\ conn'[c] # "welcome")
                => /\ Registered(c) /\ logins[c] = NoLogin
                   /\ conn'[c] = "login" => Pass[c] # <<>>
                   /\ conn'[c] = "return" => Pass[c] = <<>>
          /\ (conn[c] = "login" /\ conn'[c] # "login")
                => LET service == IF Len(Pass[c]) = 1 THEN "slack" ELSE "mattermost"
                   IN  /\ logins'[c].service = service
                       /\ logins'[c].pass = Pass[c]
                       /\ logins'[c].ghost = [Nick |-> service, User |-> service,
                                              Real |-> service, Host |-> "service"]
                       /\ conn'[c] = "return"
          /\ logins'[c] # logins[c]
                => /\ logins[c] = NoLogin /\ conn[c] = "login" /\ Registered(c)
                   /\ gotPass[c]
          /\ (conn[c] = "return" /\ conn'[c] = "serving")
                => (logins[c] # NoLogin <=> Pass[c] # <<>>)]_vars

\* PASS p :q, NICK a, USER u: registered, and logged in to mattermost with the
\* two arguments, as the ghost mattermost.
C18_Witness ==
    /\ conn["c1"] = "serving" /\ ret["c1"] = "nil"
    /\ Pass["c1"] = << <<"p">>, <<"q">> >>
    /\ logins["c1"].service = "mattermost"
    /\ logins["c1"].ghost.Nick = "mattermost"
    /\ logins["c1"].pass = << <<"p">>, <<"q">> >>

\* The policy forbids the team or the account the connection was made to.
Forbidden ==
    /\ ~rtmInfo.nil
    /\ \/ viper.restrict # <<>> /\
          \A k \in 1..Len(viper.restrict) : viper.restrict[k] # rtmInfo.Domain
       \/ \E k \in 1..Len(viper.DenyUsers) : viper.DenyUsers[k] = rtmInfo.Name

\* C19 as stated: a login to a team the restrict list leaves out, or with an
\* account DenyUsers names, is never connected; once it has returned it has
\* returned an error, the real-time connection is disconnected, and neither the
\* event consumer nor the on-connect callback was started.
C19_AsStated ==
    Forbidden =>
        /\ ~connected
        /\ started = {}
        /\ lpc = "done" => newErr # "nil" /\ rtm = "disconnected"

\* C20 as stated, for sends that have returned: when the translator compares a
\* message whose channel and id are those of a post the local session made, and
\* no send call is still between its post and its record, the handling ends
\* there and nothing is sent to the outbound event stream.
C20_AsStated ==
    [][(/\ Compared
        /\ inq # <<>>
        /\ Head(inq).Type = "message"
        /\ <<Head(inq).Channel, Head(inq).Timestamp>> \in sent
        /\ \A t \in Threads : snd[t].pc = "idle")
       => EventHandled /\ emitted' = <<>>]_vars

\* The recorded id a is earlier than the id b: nothing is recorded, or a was
\* given out by the backend before b.
Earlier(a, b) ==
    \/ a = <<>> /\ b # <<>>
    \/ \E j, k \in 0..(MaxMessages + 1) : a = TsStr(j) /\ b = TsStr(k) /\ j < k

\* C21: on a message of the local account's own identity the translator waits
\* if and only if the id recorded for the channel is earlier than the event's
\* timestamp (no record counts as earlier), and otherwise compares at once;
\* after the wait it compares with the record as it is then, ending the
\* handling with nothing sent exactly when the record equals the timestamp and
\* going on to send the lines otherwise, and it never waits a second time, not
\* between the lines either; a message of another identity is never waited for.
C21_WaitOnce ==
    [][(TranslatorStep /\ inq # <<>>) =>
        LET ev == Head(inq)
            rec == MapGet(msgLast, ev.Channel)
        IN  /\ (tr = "idle" /\ ev.User = Me) =>
                  IF Earlier(rec, ev.Timestamp)
                  THEN tr' = "sleep" /\ inq' = inq /\ emitted' = emitted
                  ELSE tr' # "sleep"
            /\ (tr = "idle" /\ ev.User # Me) => tr' # "sleep"
            /\ tr = "sleep" =>
                  /\ tr' # "sleep"
                  /\ rec = ev.Timestamp => EventHandled /\ emitted' = <<>>
                  /\ (rec # ev.Timestamp /\ ev.Text # <<>> /\ trLog' = None)
                        => tr' = "lines"
            /\ tr = "lines" => tr' = "send"
            /\ tr = "send" => tr' \in {"lines", "idle"}
            /\ tr' = "idle" <=> EventHandled]_vars

\* The translator waits on an own message whose channel has an earlier record.
C21_Witness ==
    /\ tr = "sleep"
    /\ Head(inq).User = Me
    /\ MapGet(msgLast, Head(inq).Channel) # <<>>
    /\ Earlier(MapGet(msgLast, Head(inq).Channel), Head(inq).Timestamp)

\* C21 as stated: on an own message the translator waits if and only if the
\* recorded id is not earlier than the event's timestamp.
C21_AsStated ==
    [][(TranslatorStep /\ inq # <<>> /\ tr = "idle" /\ Head(inq).User = Me) =>
        (tr' = "sleep" <=>
            ~Earlier(MapGet(msgLast, Head(inq).Channel), Head(inq).Timestamp))]_vars

\* C22 as stated: the step that suppresses an echo consumes the channel's
\* record, so that an own-identity event with the same id on that channel is no
\* longer equal to what is recorded for the channel.
C22_AsStated ==
    [][(/\ EventHandled
        /\ Head(inq).Type = "message"
        /\ Head(inq).User = Me
        /\ MapGet(msgLast, Head(inq).Channel) = Head(inq).Timestamp)
       => MapGet(msgLast', Head(inq).Channel) # Head(inq).Timestamp]_vars

\* C23 as stated: a connection whose 20th inbound line is the USER line that
\* completes nick and username does not fail by that line: the handshake goes
\* on to s.add, which registers it when the nick is free.
C23_AsStated ==
    [][\A c \in Conns :
          (/\ i[c] = 1
           /\ Nick[c] # <<>> /\ User[c] = <<>>
           /\ ToLower(FirstN(Nick[c])) \notin DOMAIN users
           /\ HandshakeMsg(c, UserLine))
          => conn'[c] = "add" /\ ret'[c] # "ErrHandshakeFailed"]_vars

\* What handshake returns.
Returned(c) == ret[c] \in {"nil", "ErrHandshakeFailed", "EncodeError"}

\* The positions of a handshake that has been started and has not returned.
InHandshake ==
    {"handshake", "add", "adding", "inuse", "added", "welcome", "login", "return",
     "returnErr"}

\* C24: every handshake that was started returns, with success, with
\* ErrHandshakeFailed or with the error of a write of welcome; while it has not
\* returned it has consumed fewer than 20 lines, it never consumes more than
\* 20, and once it returned the connection is out of the handshake for good.
C24_HandshakeTerminates ==
    /\ \A c \in Conns : (conn[c] \in InHandshake) ~> Returned(c)
    /\ [](\A c \in Conns :
            /\ i[c] \in 0..handshakeMsgTolerance
            /\ conn[c] \in InHandshake => i[c] >= 1 /\ ~Returned(c)
            /\ Returned(c) => conn[c] \in {"serving", "closed"})
    /\ [][\A c \in Conns : Returned(c) => ret'[c] = ret[c] /\ i'[c] = i[c]]_vars

\* A handshake returned after silence: no line was consumed.
C24_Witness ==
    /\ ret["c1"] = "ErrHandshakeFailed"
    /\ i["c1"] = handshakeMsgTolerance
    /\ conn["c1"] = "closed"

\* C24 as stated: every handshake that was started returns either success or
\* ErrHandshakeFailed.
C24_AsStated ==
    \A c \in Conns :
        (conn[c] \in InHandshake) ~> (ret[c] \in {"nil", "ErrHandshakeFailed"})

\* C25 as stated: a connection whose Connect returned an error is not in the
\* registry, is closed, and has no command loop.
C25_AsStated ==
    \A c \in Conns :
        ret[c] \in {"ErrHandshakeFailed", "EncodeError"} =>
            /\ ~Registered(c)
            /\ conn[c] = "closed"
            /\ ~handling[c]

\* C26 as stated: a step of a Logout(u) or of a Quit(u) leaves every other user
\* that was registered before it registered, and leaves a channel that still
\* has members under both of its keys.
C26_AsStated ==
    [][/\ LogoutSteps =>
            /\ \A o \in Users \ {lg.u} : Registered(o) => Registered(o)'
            /\ \A ch \in chans :
                  (ChUsers(ChID(ch))' # {} /\ ChID(ch) \in DOMAIN channels)
                     => ChID(ch) \in DOMAIN channels'
       /\ \A c \in Conns : QuitSteps(c) =>
            \A o \in Users \ {c} : Registered(o) => Registered(o)']_vars

\* C27 as stated: a user that Quit has removed from the registry does not come
\* back into it.
C27_AsStated ==
    [][\A c \in Conns :
          (QuitDeleted(c) /\ ~Registered(c)) => ~Registered(c)']_vars


C29_AsStated ==
    lastRead.op # None => lastRead.locked /\ ~lastRead.overlap

\* The lines of a text put together again, a line feed between two of them.
RECURSIVE JoinLines(_)
JoinLines(ls) ==
    IF ls = <<>> THEN <<>>
    ELSE IF Len(ls) = 1 THEN ls[1]
    ELSE ls[1] \o <<"\n">> \o JoinLines(Tail(ls))

\* The text each emitted event carries, as the backend wrote it.
EmittedTexts(out) == [k \in 1..Len(out) |-> out[k].Text[2]]

\* C30: the translator emits in the order of the backend's stream.  Every step
\* of it is about the event at the head of the stream; a step that begins the
\* recheck wait emits nothing and takes nothing from the stream, and events that
\* arrive during the wait or between two lines stay behind the one handled; the
\* event compared is later than the event handled before it and earlier than
\* every event still waiting; each line is sent behind the lines sent before
\* it, and the step that ends the handling takes exactly the head, with the
\* lines of that one message emitted, on its channel, in the order of the text.
C30_StreamOrder ==
    [][TranslatorStep =>
        /\ inq # <<>>
        /\ tr = "lines" =>
              /\ lastEv = Head(inq)
              /\ emitted' = emitted
              /\ tr' = "send"
        /\ tr = "send" =>
              /\ lastEv = Head(inq)
              /\ Len(emitted') = Len(emitted) + 1
              /\ SubSeq(emitted', 1, Len(emitted)) = emitted
        /\ IF tr' = "sleep"
           THEN inq' = inq /\ emitted' = emitted /\ lastEv' = lastEv
           ELSE /\ lastEv' = Head(inq)
                /\ inq' = IF tr' \in {"lines", "send"} THEN inq ELSE Tail(inq)
                /\ (Compared /\ lastEv.Type # None)
                      => Earlier(lastEv.Timestamp, lastEv'.Timestamp)
                /\ \A k \in 2..Len(inq) :
                      Earlier(lastEv'.Timestamp, inq[k].Timestamp)
                /\ tr' \in {"lines", "send"} => Len(emitted') < Lines(lastEv'.Text)
                /\ \A k \in 1..Len(emitted') :
                      /\ emitted'[k].ChannelID = lastEv'.Channel
                      /\ \A j \in 1..Len(emitted'[k].Text[2]) :
                            emitted'[k].Text[2][j] # "\n"
                /\ (tr' \notin {"lines", "send"} /\ emitted' # <<>>) =>
                      /\ Len(emitted') = Lines(lastEv'.Text)
                      /\ JoinLines(EmittedTexts(emitted')) = lastEv'.Text]_vars

\* A two-line message of the local account has been emitted as two events
\* after the recheck wait (nothing is recorded for its channel), while a later
\* event of the stream waits.
C30_Witness ==
    /\ tr = "idle"
    /\ lastEv.Type = "message"
    /\ lastEv.User = Me
    /\ MapGet(msgLast, lastEv.Channel) = <<>>
    /\ Len(emitted) = 2
    /\ inq # <<>>

\* C31 as stated: what a message on a direct conversation is emitted as are
\* direct_message events on that conversation whose receiver is the other
\* participant, and not the local account when the local account's ghost is the
\* sender; what a message on another context is emitted as are channel_message
\* events with the id of that channel.
C31_AsStated ==
    (lastEv.Type = "message" /\ tr = "idle") =>
        \A k \in 1..Len(emitted) :
            IF HasPrefix(lastEv.Channel, "D")
            THEN /\ emitted[k].Type = "direct_message"
                 /\ emitted[k].ChannelID = lastEv.Channel
                 /\ emitted[k].Sender.User = lastEv.User
                 /\ emitted[k].Receiver.User = Other
                 /\ emitted[k].Sender.Me => ~emitted[k].Receiver.Me
            ELSE /\ emitted[k].Type = "channel_message"
                 /\ emitted[k].ChannelID = lastEv.Channel

\* C32 as stated: a member-joined event is translated to exactly one
\* channel_add event and a member-left event to exactly one channel_remove
\* event, for the channel and the user of the backend's event; the channel_add
\* carries an adder if and only if the backend's event names an inviter; a chat
\* message with a join or leave subtype is translated to nothing.  Stated of
\* the event handled latest, its handling over.
C32_AsStated ==
    tr = "idle" =>
    /\ lastEv.Type = "member_joined_channel" =>
          /\ Len(emitted) = 1
          /\ emitted[1].Type = "channel_add"
          /\ emitted[1].ChannelID = lastEv.Channel
          /\ Len(emitted[1].Added) = 1
          /\ emitted[1].Added[1].User = lastEv.User
          /\ emitted[1].Adder.nil <=> lastEv.Inviter = <<>>
    /\ lastEv.Type = "member_left_channel" =>
          /\ Len(emitted) = 1
          /\ emitted[1].Type = "channel_remove"
          /\ emitted[1].ChannelID = lastEv.Channel
          /\ Len(emitted[1].Removed) = 1
          /\ emitted[1].Removed[1].User = lastEv.User
    /\ (lastEv.Type = "message" /\ lastEv.SubType \in JoinLeave) => emitted = <<>>

\* The text begins with p.
StartsWith(text, p) == Len(text) >= Len(p) /\ SubSeq(text, 1, Len(p)) = p

\* The beginning of a thread-origin and of an edit-origin marker.
ThreadMark == <<"[", "T", " ">>
EditMark == <<"[", "C", " ">>
Marked(text) == StartsWith(text, ThreadMark) \/ StartsWith(text, EditMark)

\* C33: of the lines a message is translated to, the first begins with the
\* edit-origin marker when the message is an edit, with the thread-origin marker
\* when it is not an edit and belongs to a thread, and with neither otherwise;
\* no line after the first begins with a marker.
C33_MarkerFirstOnly ==
    (lastEv.Type = "message" /\ emitted # <<>>) =>
        LET line(k) == emitted[k].Text[2]
        IN  /\ \A k \in 2..Len(emitted) : ~Marked(line(k))
            /\ IF lastEv.SubType = MessageChanged
               THEN StartsWith(line(1), EditMark)
               ELSE IF lastEv.ThreadTimestamp # <<>>
               THEN StartsWith(line(1), ThreadMark)
               ELSE ~Marked(line(1))

\* An edit of a thread message has been translated to four lines: the body, and
\* the edited text.
C33_Witness ==
    /\ lastEv.Type = "message"
    /\ lastEv.SubType = MessageChanged
    /\ lastEv.ThreadTimestamp # <<>>
    /\ Len(emitted) = 4
    /\ StartsWith(emitted[1].Text[2], EditMark \o FormatTS(OldTs) \o <<"]", " ">> \o ThreadMark)

\* The star and pin events.
ItemTypes == {"star_added", "star_removed", "pin_added", "pin_removed"}

\* The informational message of a star or pin event: its sender is the acting
\* user, it is for the context of the item, and its text begins with "[M " and
\* the formatted timestamp of the target message.
ItemNotice(ev, e) ==
    /\ e.Type \in {"channel_message", "direct_message"}
    /\ e.Sender.User = ev.User
    /\ e.Sender.Nick = BackendName(ev.User)
    /\ e.ChannelID = ev.Item.Channel
    /\ StartsWith(e.Text, <<"[", "M", " ">> \o
                          FormatTS(ev.Item.Message.Timestamp) \o <<"]">>)

\* C34 as stated: when the translator takes a star or pin event, while no other
\* goroutine is in a call of the session, the process goes on; an event whose
\* item carries no message is over with that step and nothing is sent; for one
\* that carries a message the translator either has the one informational
\* message to send, or the acting user did not resolve and nothing is sent;
\* and the send that follows emits that message, and it alone.
C34_AsStated ==
    [][(inq # <<>> /\ Head(inq).Type \in ItemTypes /\ gu.pc = "idle") =>
          LET ev == Head(inq)
          IN  /\ (tr = "idle" /\ (tr' # tr \/ inq' # inq)) =>
                    /\ alive'
                    /\ tr' \in {"idle", "send"}
                    /\ tr' = "idle" => EventHandled /\ emitted' = <<>>
                    /\ tr' = "send" => ~ev.Item.Message.nil /\ ItemNotice(ev, pending')
              /\ (tr = "send" /\ tr' # tr) =>
                    emitted' = <<pending>> /\ EventHandled /\ tr' = "idle"]_vars

\* The nicks looked up.
ProbeNicks == {<<"a">>, <<"A">>, <<"a", "b">>, <<"A", "B">>, <<"A", "B", "b">>}

\* C35 as stated: while no mutation is under way, HasUser(n) finds a user
\* exactly when adding a user with the nick n would be rejected, and exactly
\* when RenameUser to n would be rejected, for every n in every letter case.
C35_AsStated ==
    lock = None =>
        \A n \in ProbeNicks :
            /\ HasUser(n) <=> ~KeyFree(UserKey(n))
            /\ HasUser(n) <=> ID(Truncate(n)) \in DOMAIN users

\* C36: a send call that returns where it began, without a post accepted,
\* returns an error and no message id, and leaves the last-sent records and the
\* event stream as they were; a record changes only in the step in which a call
\* whose post was accepted stores the id of that post for its channel, which is
\* the id the call returns.  The translator therefore compares a later own
\* message with the id recorded before the rejected post.
C36_RejectedPost ==
    /\ [][\A t \in Threads :
            (snd[t].pc = "idle" /\ snd'[t].pc = "idle" /\ snd'[t] # snd[t]) =>
                /\ snd'[t].err = "error"
                /\ snd'[t].res = <<>>
                /\ msgLast' = msgLast
                /\ inq' = inq /\ sent' = sent]_vars
    /\ [][msgLast' # msgLast =>
            \E t \in Threads :
                /\ snd[t].pc = "recording"
                /\ snd'[t] = [pc |-> "idle", res |-> snd[t].msgID, err |-> "nil"]
                /\ msgLast' = MapPut(msgLast, snd[t].key, snd[t].msgID)]_vars

\* One call recorded the id of its post on C1 and returned it, the other call's
\* post was rejected, and the echo of the recorded post was suppressed: the
\* record is still the id of the accepted post.
C36_Witness ==
    \E t1, t2 \in Threads :
        /\ snd[t1] = [pc |-> "idle", res |-> <<>>, err |-> "error"]
        /\ snd[t2].pc = "idle" /\ snd[t2].err = "nil"
        /\ snd[t2].res = MapGet(msgLast, C1)
        /\ lastEv.Type = "message" /\ lastEv.User = Me /\ lastEv.Channel = C1
        /\ lastEv.Timestamp = MapGet(msgLast, C1)
        /\ emitted = <<>>

\* The send-path calls that are inside their write of the last-sent record.
Recording == {t \in Threads : snd[t].pc = "recording"}

\* C37 as stated: never are two send-path calls inside their write of the
\* last-sent record at the same time, and the translator never reads the record
\* of an own message's channel while a send-path call is inside its write.
C37_AsStated ==
    /\ [](Cardinality(Recording) <= 1)
    /\ [][(/\ \E env \in SlackEnvs : HandleSlack(env) \/ HandleSlackWake(env)
           /\ ReadsMsgLast(Head(inq)))
          => Recording = {}]_vars

====
